---- MODULE Spec2Model ----
(***************************************************************************)
(* DevFlow backend: the request handlers of routes/questions.js,           *)
(* routes/answers.js, routes/comments.js and routes/votes.js over the      *)
(* document store (User, Question, Answer, Comment, Vote collections).     *)
(* A handler is served one datastore call at a time, the calls of the       *)
(* requests in service interleaving; served with no other request in       *)
(* service it is an operator from the store and the request to the store   *)
(* after the request and the response status.                              *)
(***************************************************************************)
EXTENDS Integers, Sequences, FiniteSets, TLC

\* ------------------------------------------------------------------ bounds
\* Number of documents (questions, answers, comments) ever created: ids are
\* drawn from one counter, as ObjectIds are unique across collections.
MaxDocs == 3
\* Size of the Vote collection.
MaxVotes == 2
\* Range of a votes counter reached through the direct upvote/downvote routes.
VoteCap == 1
\* Range of the votes counters and reputations, number of documents created and
\* size of the Vote collection where failing writes are explored.
Drift == 1
FailDocs == 2
FailVotes == 1
\* Number of documents created, and range of the counters and reputations at the
\* arrival of a request, where interleaved votes are explored: the range holds
\* the counters that two voters, or two Vote documents of one, add up to.
RaceDocs == 1
RaceDrift == 2
\* Number of times scripts/fixUsers.js is run.
MaxRuns == 1
\* Number of documents created where votes, the direct routes, fetches, edits and
\* profile updates are explored.
FewDocs == 2
\* Size of the Vote collection where the direct routes are explored.
DirectVotes == 1
\* Range of a question's version key reached through updates of its tags.
MaxVersion == 2

\* Reputation granted for an accepted answer.
AcceptBonus == 15

Users == {"u1", "u2", "u3"}
\* req.userId of a request without a valid token (optionalAuth).
NoUser == "anon"
\* An unset path (acceptedAnswer undefined, a text absent from a request body).
Null == 0
\* verifiedBy undefined: the path of a document that was never verified.
NoVerifier == "none"
\* verifiedBy null: the value an unverify request sets. To Mongoose null differs
\* from undefined, so that setting it on a document loaded without verifiedBy
\* modifies the path.
NullVerifier == "null"
\* A username absent from a request body, and a bio that is undefined.
NoName == ""
NoBio == "undefined"
Ids == 1..MaxDocs
\* Mutant of TargetTypes: comments are accepted as targets too.
TargetTypesWithComment == {"question", "answer", "comment"}

TargetTypes == {"question", "answer"}

\* The requests in service at a time.
Slots == {1, 2}

\* script is the position of scripts/fixUsers.js: the number of its run and the
\* entry of usersData it creates next (0: not running).
VARIABLES users, questions, answers, comments, votes, nextId, fetched, inflight, script

vars == <<users, questions, answers, comments, votes, nextId, fetched, inflight, script>>

\* The document store as one value.
DB ==
  [users |-> users, questions |-> questions, answers |-> answers,
   comments |-> comments, votes |-> votes, nextId |-> nextId]

\* ------------------------------------------------------------------ schemas
\* User documents as registered: reputation defaults to 0, role is one of
\* user, expert, admin.
InitUsers ==
  [u \in Users |->
     [reputation |-> 0,
      role |-> IF u = "u3" THEN "admin" ELSE IF u = "u2" THEN "expert" ELSE "user",
      username |-> u, bio |-> NoBio]]

\* The users scripts/fixUsers.js creates.
usersData ==
  << [username |-> "admin", role |-> "admin",
      bio |-> "Platform administrator and full-stack developer with 10+ years of experience."],
     [username |-> "sarah_dev", role |-> "expert",
      bio |-> "React and Next.js expert. Love helping developers build amazing web applications."],
     [username |-> "alex_coder", role |-> "expert",
      bio |-> "Backend specialist focusing on Node.js, Express, and MongoDB. Always happy to help!"],
     [username |-> "john_doe", role |-> "user",
      bio |-> "Learning web development. Excited to be part of this community!"],
     [username |-> "emma_dev", role |-> "user",
      bio |-> "Frontend developer passionate about React and modern JavaScript."],
     [username |-> "mike_codes", role |-> "user",
      bio |-> "Full-stack developer learning the ropes. Ask me anything about my journey!"],
     [username |-> "lisa_tech", role |-> "user",
      bio |-> "UI/UX designer turned developer. Love creating beautiful and functional interfaces."],
     [username |-> "david_web", role |-> "user",
      bio |-> "Backend developer specializing in REST APIs and database design."],
     [username |-> "sophia_code", role |-> "user",
      bio |-> "JavaScript enthusiast. Always exploring new frameworks and libraries."] >>

\* The _id of the k-th user that run number run of the script creates: a new
\* one for each document.
UserId(run, k) == "run" \o ToString(run) \o "user" \o ToString(k)

\* User.create of an entry of usersData: reputation defaults to 0.
NewUser(userData) ==
  [reputation |-> 0, role |-> userData.role,
   username |-> userData.username, bio |-> userData.bio]

\* The text a create request carries (title, body, tags of a question, body of
\* an answer); an update request carries a text or nothing (Null).
FirstText == 1

NewQuestion(u) ==
  [asker |-> u, votes |-> 0, views |-> 0, viewers |-> <<u>>, acceptedAnswer |-> Null,
   title |-> FirstText, body |-> FirstText, tags |-> FirstText, isPinned |-> FALSE,
   version |-> 0]

NewAnswer(u, qid) ==
  [questionId |-> qid, answerer |-> u, votes |-> 0, isAccepted |-> FALSE,
   body |-> FirstText, isVerified |-> FALSE, verifiedBy |-> NoVerifier]

NewComment(u, tt, id) ==
  [author |-> u, targetType |-> tt, targetId |-> id]

NewVote(u, tt, id, v) ==
  [user |-> u, targetType |-> tt, targetId |-> id, value |-> v]

\* ------------------------------------------------------------------ helpers
Remove(f, ids) == [i \in DOMAIN f \ ids |-> f[i]]

\* Mutant of RemoveAt: Vote.deleteOne() on the model removes the first document of
\* the collection instead of the one that was found.
RemoveFirst(s, i) == Tail(s)

RemoveAt(s, i) == SubSeq(s, 1, i - 1) \o SubSeq(s, i + 1, Len(s))

Resp(d, status) == [db |-> d, status |-> status]

\* Mutant of IncReputation: the update sets the reputation ($set) instead of
\* incrementing it.
SetReputation(us, u, n) ==
  IF u \in DOMAIN us
    THEN [us EXCEPT ![u].reputation = n]
    ELSE us

\* User.findByIdAndUpdate(id, { $inc: { reputation: n } }): no document, no write.
IncReputation(us, u, n) ==
  IF u \in DOMAIN us
    THEN [us EXCEPT ![u].reputation = @ + n]
    ELSE us

\* Model.findById for the target of a vote or comment.
FindTarget(d, tt, id) ==
  IF tt = "question" THEN id \in DOMAIN d.questions ELSE id \in DOMAIN d.answers

TargetOwner(d, tt, id) ==
  IF tt = "question" THEN d.questions[id].asker ELSE d.answers[id].answerer

\* document.save(): Mongoose writes the paths whose value differs from the value
\* the document was loaded with, and leaves every other stored path alone.
Save(stored, loaded, doc) ==
  [f \in DOMAIN stored |-> IF doc[f] # loaded[f] THEN doc[f] ELSE stored[f]]

\* question.viewers.push(u); question.views += 1; await question.save(): the push
\* is written as $push onto the stored array with an $inc of the version key, the
\* counter as $set of the value computed from the loaded document.
SaveView(stored, loaded, u) ==
  [stored EXCEPT !.viewers = Append(@, u), !.views = loaded.views + 1, !.version = @ + 1]

\* if (title) question.title = title; if (body) ...; if (tags) question.tags = tags:
\* tags is an array, and an array set as a whole increments the version key.
Updated(question, title, body, tags) ==
  [question EXCEPT
     !.title = IF title # Null THEN title ELSE @,
     !.body = IF body # Null THEN body ELSE @,
     !.tags = IF tags # Null THEN tags ELSE @,
     !.version = IF tags # Null /\ tags # question.tags THEN @ + 1 ELSE @]

\* Mutant of FindVote: the lookup misses the newest Vote record.
FindVoteSkipsNewest(vs, u, tt, id) ==
  LET hits == {i \in 1..(Len(vs) - 1) :
                 vs[i].user = u /\ vs[i].targetType = tt /\ vs[i].targetId = id}
  IN IF hits = {} THEN 0 ELSE CHOOSE i \in hits : \A j \in hits : i <= j

\* Vote.findOne({ user, targetType, targetId }): the first match in insertion
\* order, as an index into the collection; 0 when there is none.
FindVote(vs, u, tt, id) ==
  LET hits == {i \in 1..Len(vs) :
                 vs[i].user = u /\ vs[i].targetType = tt /\ vs[i].targetId = id}
  IN IF hits = {} THEN 0 ELSE CHOOSE i \in hits : \A j \in hits : i <= j

\* ------------------------------------------------------------------ routes/votes.js
\* POST /api/votes
votesPost(d, u, tt, id, v) ==
  IF tt \notin TargetTypes THEN Resp(d, 400)
  ELSE IF v \notin {1, -1} THEN Resp(d, 400)
  ELSE IF ~FindTarget(d, tt, id) THEN Resp(d, 404)
  ELSE
    LET i == FindVote(d.votes, u, tt, id)
        target == IF tt = "question" THEN d.questions[id] ELSE d.answers[id]
        authorId == TargetOwner(d, tt, id)
        \* target.votes += n; await target.save()
        saveTarget(dd, n) ==
          IF tt = "question"
            THEN [dd EXCEPT !.questions[id] =
                    Save(@, target, [target EXCEPT !.votes = @ + n])]
            ELSE [dd EXCEPT !.answers[id] =
                    Save(@, target, [target EXCEPT !.votes = @ + n])]
        bump(dd, n) ==
          LET d1 == saveTarget(dd, n)
          IN [d1 EXCEPT !.users = IncReputation(@, authorId, n)]
    IN IF i # 0
         THEN IF d.votes[i].value = v
                THEN Resp(bump([d EXCEPT !.votes = RemoveAt(@, i)], -v), 200)
                ELSE LET diff == v - d.votes[i].value
                     IN Resp(bump([d EXCEPT !.votes[i].value = v], diff), 200)
         ELSE Resp(bump([d EXCEPT !.votes = Append(@, NewVote(u, tt, id, v))], v), 201)

\* The writes of a vote request at which the datastore can fail.
FailPoints == 1..3

\* Mutant of votesPostSteps: the writes made before the failing one are rolled
\* back, as in a transaction.
votesPostRollback(d, u, tt, id, v, failAt) ==
  IF tt \notin TargetTypes THEN Resp(d, 400)
  ELSE IF v \notin {1, -1} THEN Resp(d, 400)
  ELSE IF ~FindTarget(d, tt, id) THEN Resp(d, 404)
  ELSE IF failAt # 0 THEN Resp(d, 500)
  ELSE votesPost(d, u, tt, id, v)

\* POST /api/votes write by write. Each branch makes three writes in this order:
\* the Vote record (deleteOne, save or create), the target (target.save()), the
\* owner (User.findByIdAndUpdate). failAt is the write whose datastore call
\* throws, 0 when none does: the catch answers 500 and the writes made before it
\* stay.
votesPostSteps(d, u, tt, id, v, failAt) ==
  IF tt \notin TargetTypes THEN Resp(d, 400)
  ELSE IF v \notin {1, -1} THEN Resp(d, 400)
  ELSE IF ~FindTarget(d, tt, id) THEN Resp(d, 404)
  ELSE
    LET i == FindVote(d.votes, u, tt, id)
        target == IF tt = "question" THEN d.questions[id] ELSE d.answers[id]
        authorId == TargetOwner(d, tt, id)
        same == i # 0 /\ d.votes[i].value = v
        n == IF i = 0 THEN v ELSE IF same THEN -v ELSE v - d.votes[i].value
        w1 == IF i = 0 THEN [d EXCEPT !.votes = Append(@, NewVote(u, tt, id, v))]
              ELSE IF same THEN [d EXCEPT !.votes = RemoveAt(@, i)]
              ELSE [d EXCEPT !.votes[i].value = v]
        w2 == IF tt = "question"
                THEN [w1 EXCEPT !.questions[id] =
                        Save(@, target, [target EXCEPT !.votes = @ + n])]
                ELSE [w1 EXCEPT !.answers[id] =
                        Save(@, target, [target EXCEPT !.votes = @ + n])]
        w3 == [w2 EXCEPT !.users = IncReputation(@, authorId, n)]
    IN IF failAt = 1 THEN Resp(d, 500)
       ELSE IF failAt = 2 THEN Resp(w1, 500)
       ELSE IF failAt = 3 THEN Resp(w2, 500)
       ELSE Resp(w3, IF i = 0 THEN 201 ELSE 200)

\* ------------------------------------------------------------------ routes/questions.js
\* Mutant of questionsGet: every fetch by a logged-in user counts as a view.
questionsGetEveryFetch(d, u, id) ==
  IF id \notin DOMAIN d.questions THEN Resp(d, 404)
  ELSE
    LET question == d.questions[id]
    IN IF u # NoUser
         THEN Resp([d EXCEPT !.questions[id] = SaveView(@, question, u)], 200)
         ELSE Resp(d, 200)

\* GET /api/questions/:id
questionsGet(d, u, id) ==
  IF id \notin DOMAIN d.questions THEN Resp(d, 404)
  ELSE
    LET question == d.questions[id]
        hasViewed == \E k \in 1..Len(question.viewers) : question.viewers[k] = u
    IN IF u # NoUser /\ ~hasViewed
         THEN Resp([d EXCEPT !.questions[id] = SaveView(@, question, u)], 200)
         ELSE Resp(d, 200)

\* POST /api/questions
questionsCreate(d, u, hasTitleAndBody) ==
  IF ~hasTitleAndBody THEN Resp(d, 400)
  ELSE Resp([d EXCEPT !.questions = @ @@ (d.nextId :> NewQuestion(u)),
                      !.nextId = @ + 1], 201)

\* PUT /api/questions/:id; title, body, tags are the request's fields, Null when
\* the request does not carry one.
questionsUpdate(d, u, id, title, body, tags) ==
  IF id \notin DOMAIN d.questions THEN Resp(d, 404)
  ELSE IF d.questions[id].asker # u /\ u \notin DOMAIN d.users THEN Resp(d, 500)
  ELSE IF d.questions[id].asker # u /\ d.users[u].role # "admin" THEN Resp(d, 403)
  ELSE
    LET question == d.questions[id]
    IN Resp([d EXCEPT !.questions[id] =
               Save(@, question, Updated(question, title, body, tags))], 200)

\* Mutant of questionsDelete: an expert passes the authorization check as an
\* admin does.
questionsDeleteByExpert(d, u, id) ==
  IF id \notin DOMAIN d.questions THEN Resp(d, 404)
  ELSE IF d.questions[id].asker # u /\ u \notin DOMAIN d.users THEN Resp(d, 500)
  ELSE IF d.questions[id].asker # u /\ d.users[u].role \notin {"admin", "expert"}
    THEN Resp(d, 403)
  ELSE
    Resp([d EXCEPT
            !.answers = Remove(@, {a \in DOMAIN @ : @[a].questionId = id}),
            !.comments = Remove(@, {c \in DOMAIN @ :
                                      @[c].targetType = "question" /\ @[c].targetId = id}),
            !.questions = Remove(@, {id})], 200)

\* DELETE /api/questions/:id
questionsDelete(d, u, id) ==
  IF id \notin DOMAIN d.questions THEN Resp(d, 404)
  ELSE IF d.questions[id].asker # u /\ u \notin DOMAIN d.users THEN Resp(d, 500)
  ELSE IF d.questions[id].asker # u /\ d.users[u].role # "admin" THEN Resp(d, 403)
  ELSE
    Resp([d EXCEPT
            !.answers = Remove(@, {a \in DOMAIN @ : @[a].questionId = id}),
            !.comments = Remove(@, {c \in DOMAIN @ :
                                      @[c].targetType = "question" /\ @[c].targetId = id}),
            !.questions = Remove(@, {id})], 200)

\* POST /api/questions/:id/answers
questionsCreateAnswer(d, u, qid, hasBody) ==
  IF ~hasBody THEN Resp(d, 400)
  ELSE IF qid \notin DOMAIN d.questions THEN Resp(d, 404)
  ELSE Resp([d EXCEPT !.answers = @ @@ (d.nextId :> NewAnswer(u, qid)),
                      !.nextId = @ + 1], 201)

\* PUT /api/questions/:id/answers/:answerId; body is Null when the request
\* carries none.
questionsUpdateAnswer(d, u, qid, aid, body) ==
  IF body = Null THEN Resp(d, 400)
  ELSE IF aid \notin DOMAIN d.answers THEN Resp(d, 404)
  ELSE IF d.answers[aid].answerer # u THEN Resp(d, 403)
  ELSE LET answer == d.answers[aid]
       IN Resp([d EXCEPT !.answers[aid] =
                  Save(@, answer, [answer EXCEPT !.body = body])], 200)

\* DELETE /api/questions/:id/answers/:answerId
questionsDeleteAnswer(d, u, qid, aid) ==
  IF aid \notin DOMAIN d.answers THEN Resp(d, 404)
  ELSE IF d.answers[aid].answerer # u /\ u \notin DOMAIN d.users THEN Resp(d, 500)
  ELSE IF d.answers[aid].answerer # u /\ d.users[u].role # "admin" THEN Resp(d, 403)
  ELSE
    Resp([d EXCEPT
            !.answers = Remove(@, {aid}),
            !.comments = Remove(@, {c \in DOMAIN @ :
                                      @[c].targetType = "answer" /\ @[c].targetId = aid})],
         200)

\* Mutant of questionsVote: the counter is saved before the handler finds that the
\* requester is the asker.
questionsVoteThenCheck(d, u, id, n) ==
  IF id \notin DOMAIN d.questions THEN Resp(d, 404)
  ELSE LET question == d.questions[id]
           d1 == [d EXCEPT !.questions[id] =
                    Save(@, question, [question EXCEPT !.votes = @ + n])]
       IN IF question.asker = u THEN Resp(d1, 400) ELSE Resp(d1, 200)

\* POST /api/questions/:id/upvote (n = 1), POST /api/questions/:id/downvote (n = -1)
questionsVote(d, u, id, n) ==
  IF id \notin DOMAIN d.questions THEN Resp(d, 404)
  ELSE IF d.questions[id].asker = u THEN Resp(d, 400)
  ELSE LET question == d.questions[id]
       IN Resp([d EXCEPT !.questions[id] =
                  Save(@, question, [question EXCEPT !.votes = @ + n])], 200)

\* Mutant of questionsVoteAnswer: the route also moves the answerer's reputation,
\* as POST /api/votes does.
questionsVoteAnswerRewards(d, u, qid, aid, n) ==
  IF aid \notin DOMAIN d.answers THEN Resp(d, 404)
  ELSE IF d.answers[aid].answerer = u THEN Resp(d, 400)
  ELSE LET answer == d.answers[aid]
           d1 == [d EXCEPT !.answers[aid] =
                    Save(@, answer, [answer EXCEPT !.votes = @ + n])]
       IN Resp([d1 EXCEPT !.users = IncReputation(@, answer.answerer, n)], 200)

\* POST /api/questions/:id/answers/:answerId/upvote (n = 1), .../downvote (n = -1)
questionsVoteAnswer(d, u, qid, aid, n) ==
  IF aid \notin DOMAIN d.answers THEN Resp(d, 404)
  ELSE IF d.answers[aid].answerer = u THEN Resp(d, 400)
  ELSE LET answer == d.answers[aid]
       IN Resp([d EXCEPT !.answers[aid] =
                  Save(@, answer, [answer EXCEPT !.votes = @ + n])], 200)

\* The previously accepted answer, when the question names one that still exists:
\* prev.isAccepted = false; await prev.save()
Unaccept(d, question) ==
  IF question.acceptedAnswer # Null /\ question.acceptedAnswer \in DOMAIN d.answers
    THEN LET old == d.answers[question.acceptedAnswer]
         IN [d EXCEPT !.answers[question.acceptedAnswer] =
               Save(@, old, [old EXCEPT !.isAccepted = FALSE])]
    ELSE d

\* answer.isAccepted = true; await answer.save();
\* question.acceptedAnswer = answerId; await question.save()
MarkAccepted(d, question, qid, answer, aid) ==
  LET d1 == [d EXCEPT !.answers[aid] =
               Save(@, answer, [answer EXCEPT !.isAccepted = TRUE])]
  IN [d1 EXCEPT !.questions[qid] =
        Save(@, question, [question EXCEPT !.acceptedAnswer = aid])]

\* Mutant of questionsAccept: the handler does not compare the answer's
\* questionId with the question of the URL.
questionsAcceptAnyQuestion(d, u, qid, aid) ==
  IF qid \notin DOMAIN d.questions THEN Resp(d, 404)
  ELSE IF d.questions[qid].asker # u THEN Resp(d, 403)
  ELSE IF aid \notin DOMAIN d.answers THEN Resp(d, 404)
  ELSE
    LET question == d.questions[qid]
        answer == d.answers[aid]
    IN Resp(MarkAccepted(Unaccept(d, question), question, qid, answer, aid), 200)

\* Mutant of questionsAccept: an admin passes the asker check, as in the delete
\* handlers.
questionsAcceptOrAdmin(d, u, qid, aid) ==
  IF qid \notin DOMAIN d.questions THEN Resp(d, 404)
  ELSE IF d.questions[qid].asker # u /\ u \notin DOMAIN d.users THEN Resp(d, 500)
  ELSE IF d.questions[qid].asker # u /\ d.users[u].role # "admin" THEN Resp(d, 403)
  ELSE IF aid \notin DOMAIN d.answers THEN Resp(d, 404)
  ELSE IF d.answers[aid].questionId # qid THEN Resp(d, 400)
  ELSE
    LET question == d.questions[qid]
        answer == d.answers[aid]
    IN Resp(MarkAccepted(Unaccept(d, question), question, qid, answer, aid), 200)

\* PUT /api/questions/:id/answers/:answerId/accept
questionsAccept(d, u, qid, aid) ==
  IF qid \notin DOMAIN d.questions THEN Resp(d, 404)
  ELSE IF d.questions[qid].asker # u THEN Resp(d, 403)
  ELSE IF aid \notin DOMAIN d.answers THEN Resp(d, 404)
  ELSE IF d.answers[aid].questionId # qid THEN Resp(d, 400)
  ELSE
    LET question == d.questions[qid]
        answer == d.answers[aid]
    IN Resp(MarkAccepted(Unaccept(d, question), question, qid, answer, aid), 200)

\* Mutant of questionsPin: an expert pins any question, not only their own.
questionsPinAnyExpert(d, u, id) ==
  IF id \notin DOMAIN d.questions THEN Resp(d, 404)
  ELSE IF u \notin DOMAIN d.users THEN Resp(d, 500)
  ELSE IF d.users[u].role # "expert" /\ d.users[u].role # "admin" THEN Resp(d, 403)
  ELSE LET question == d.questions[id]
       IN Resp([d EXCEPT !.questions[id] =
                  Save(@, question, [question EXCEPT !.isPinned = TRUE])], 200)

\* POST /api/questions/:id/pin
questionsPin(d, u, id) ==
  IF id \notin DOMAIN d.questions THEN Resp(d, 404)
  ELSE IF u \notin DOMAIN d.users THEN Resp(d, 500)
  ELSE IF d.users[u].role # "expert" /\ d.users[u].role # "admin" THEN Resp(d, 403)
  ELSE IF d.users[u].role # "admin" /\ d.questions[id].asker # u THEN Resp(d, 403)
  ELSE LET question == d.questions[id]
       IN Resp([d EXCEPT !.questions[id] =
                  Save(@, question, [question EXCEPT !.isPinned = TRUE])], 200)

\* POST /api/questions/:id/unpin
questionsUnpin(d, u, id) ==
  IF id \notin DOMAIN d.questions THEN Resp(d, 404)
  ELSE IF u \notin DOMAIN d.users THEN Resp(d, 500)
  ELSE IF d.users[u].role # "expert" /\ d.users[u].role # "admin" THEN Resp(d, 403)
  ELSE IF d.users[u].role # "admin" /\ d.questions[id].asker # u THEN Resp(d, 403)
  ELSE LET question == d.questions[id]
       IN Resp([d EXCEPT !.questions[id] =
                  Save(@, question, [question EXCEPT !.isPinned = FALSE])], 200)

\* Mutant of questionsVerify: an expert verifies their own answer.
questionsVerifyOwn(d, u, qid, aid) ==
  IF aid \notin DOMAIN d.answers THEN Resp(d, 404)
  ELSE IF u \notin DOMAIN d.users THEN Resp(d, 500)
  ELSE IF d.users[u].role # "expert" /\ d.users[u].role # "admin" THEN Resp(d, 403)
  ELSE LET answer == d.answers[aid]
       IN Resp([d EXCEPT !.answers[aid] =
                  Save(@, answer, [answer EXCEPT !.isVerified = TRUE, !.verifiedBy = u])],
               200)

\* POST /api/questions/:id/answers/:answerId/verify
questionsVerify(d, u, qid, aid) ==
  IF aid \notin DOMAIN d.answers THEN Resp(d, 404)
  ELSE IF u \notin DOMAIN d.users THEN Resp(d, 500)
  ELSE IF d.users[u].role # "expert" /\ d.users[u].role # "admin" THEN Resp(d, 403)
  ELSE IF d.users[u].role = "expert" /\ d.answers[aid].answerer = u THEN Resp(d, 403)
  ELSE LET answer == d.answers[aid]
       IN Resp([d EXCEPT !.answers[aid] =
                  Save(@, answer, [answer EXCEPT !.isVerified = TRUE, !.verifiedBy = u])],
               200)

\* Mutant of questionsUnverify: the handler clears isVerified and keeps verifiedBy.
questionsUnverifyKeepsVerifier(d, u, qid, aid) ==
  IF aid \notin DOMAIN d.answers THEN Resp(d, 404)
  ELSE IF u \notin DOMAIN d.users THEN Resp(d, 500)
  ELSE IF d.users[u].role # "expert" /\ d.users[u].role # "admin" THEN Resp(d, 403)
  ELSE IF d.users[u].role # "admin" /\ d.answers[aid].verifiedBy # u THEN Resp(d, 403)
  ELSE LET answer == d.answers[aid]
       IN Resp([d EXCEPT !.answers[aid] =
                  Save(@, answer, [answer EXCEPT !.isVerified = FALSE])], 200)

\* Mutant of questionsUnverify: every expert passes, not only the verifier.
questionsUnverifyAnyExpert(d, u, qid, aid) ==
  IF aid \notin DOMAIN d.answers THEN Resp(d, 404)
  ELSE IF u \notin DOMAIN d.users THEN Resp(d, 500)
  ELSE IF d.users[u].role # "expert" /\ d.users[u].role # "admin" THEN Resp(d, 403)
  ELSE LET answer == d.answers[aid]
       IN Resp([d EXCEPT !.answers[aid] =
                  Save(@, answer, [answer EXCEPT !.isVerified = FALSE,
                                                 !.verifiedBy = NullVerifier])], 200)

\* POST /api/questions/:id/answers/:answerId/unverify
questionsUnverify(d, u, qid, aid) ==
  IF aid \notin DOMAIN d.answers THEN Resp(d, 404)
  ELSE IF u \notin DOMAIN d.users THEN Resp(d, 500)
  ELSE IF d.users[u].role # "expert" /\ d.users[u].role # "admin" THEN Resp(d, 403)
  ELSE IF d.users[u].role # "admin" /\ d.answers[aid].verifiedBy # u THEN Resp(d, 403)
  ELSE LET answer == d.answers[aid]
       IN Resp([d EXCEPT !.answers[aid] =
                  Save(@, answer, [answer EXCEPT !.isVerified = FALSE,
                                                 !.verifiedBy = NullVerifier])], 200)

\* ------------------------------------------------------------------ routes/answers.js
\* POST /api/questions/:questionId/answers
answersCreate(d, u, qid, hasBody) ==
  IF ~hasBody THEN Resp(d, 400)
  ELSE IF qid \notin DOMAIN d.questions THEN Resp(d, 404)
  ELSE Resp([d EXCEPT !.answers = @ @@ (d.nextId :> NewAnswer(u, qid)),
                      !.nextId = @ + 1], 201)

\* PUT /api/questions/:questionId/answers/:answerId/accept
answersAccept(d, u, qid, aid) ==
  IF aid \notin DOMAIN d.answers THEN Resp(d, 404)
  ELSE IF d.answers[aid].questionId \notin DOMAIN d.questions THEN Resp(d, 404)
  ELSE IF d.questions[d.answers[aid].questionId].asker # u THEN Resp(d, 403)
  ELSE
    LET answer == d.answers[aid]
        question == d.questions[answer.questionId]
        hasPrev == question.acceptedAnswer # Null
                   /\ question.acceptedAnswer \in DOMAIN d.answers
        d1 == Unaccept(d, question)
        d2 == IF hasPrev
                THEN [d1 EXCEPT !.users =
                        IncReputation(@, d.answers[question.acceptedAnswer].answerer,
                                      -AcceptBonus)]
                ELSE d1
        d3 == MarkAccepted(d2, question, answer.questionId, answer, aid)
    IN Resp([d3 EXCEPT !.users = IncReputation(@, answer.answerer, AcceptBonus)], 200)

\* PUT /api/questions/:questionId/answers/:answerId
answersUpdate(d, u, qid, aid, body) ==
  IF aid \notin DOMAIN d.answers THEN Resp(d, 404)
  ELSE IF d.answers[aid].answerer # u THEN Resp(d, 403)
  ELSE LET answer == d.answers[aid]
           doc == [answer EXCEPT !.body = IF body # Null THEN body ELSE @]
       IN Resp([d EXCEPT !.answers[aid] = Save(@, answer, doc)], 200)

\* DELETE /api/questions/:questionId/answers/:answerId
answersDelete(d, u, qid, aid) ==
  IF aid \notin DOMAIN d.answers THEN Resp(d, 404)
  ELSE IF u \notin DOMAIN d.users THEN Resp(d, 500)
  ELSE IF d.answers[aid].answerer # u /\ d.users[u].role # "admin" THEN Resp(d, 403)
  ELSE Resp([d EXCEPT !.answers = Remove(@, {aid})], 200)

\* ------------------------------------------------------------------ the answers router of /api/answers
\* The copy of the answers router that an index mounting it under /api/answers
\* serves (unnamed/part_002, unnamed/part_000).
\* POST /api/answers; the question's id comes in the body.
apiAnswersCreate(d, u, questionId, hasBody) ==
  IF ~hasBody THEN Resp(d, 400)
  ELSE IF questionId \notin DOMAIN d.questions THEN Resp(d, 404)
  ELSE Resp([d EXCEPT !.answers = @ @@ (d.nextId :> NewAnswer(u, questionId)),
                      !.nextId = @ + 1], 201)

\* PUT /api/answers/:answerId/accept; the handler has the text of
\* routes/answers.js, which reads no question id of the URL.
apiAnswersAccept(d, u, aid) == answersAccept(d, u, Null, aid)

\* PUT /api/answers/:id
apiAnswersUpdate(d, u, id, body) ==
  IF id \notin DOMAIN d.answers THEN Resp(d, 404)
  ELSE IF d.answers[id].answerer # u THEN Resp(d, 403)
  ELSE LET answer == d.answers[id]
           doc == [answer EXCEPT !.body = IF body # Null THEN body ELSE @]
       IN Resp([d EXCEPT !.answers[id] = Save(@, answer, doc)], 200)

\* DELETE /api/answers/:id: the answerer only, no role is read.
apiAnswersDelete(d, u, id) ==
  IF id \notin DOMAIN d.answers THEN Resp(d, 404)
  ELSE IF d.answers[id].answerer # u THEN Resp(d, 403)
  ELSE Resp([d EXCEPT !.answers = Remove(@, {id})], 200)

\* ------------------------------------------------------------------ handlers that only read
\* req.query.tags of GET /api/questions: Null when the URL carries no tags, a
\* text when it carries one tags parameter (a string), RepeatedTags when it
\* carries several (?tags=a&tags=b, ?tags[]=a: an array or an object, which has
\* no split method).
RepeatedTags == -1

TagsQueries == {Null, FirstText, FirstText + 1, RepeatedTags}

\* The questions Question.find(query) returns.
Found(d, tags) == {q \in DOMAIN d.questions : tags = Null \/ d.questions[q].tags = tags}

\* The questions Question.find({ asker: id }) returns.
AskedBy(d, id) == {q \in DOMAIN d.questions : d.questions[q].asker = id}

\* GET /api/questions (routes/questions.js): tags.split throws a TypeError when
\* tags is no string, before any datastore call, and the catch answers 500.
questionsList(d, tags) == IF tags = RepeatedTags THEN Resp(d, 500) ELSE Resp(d, 200)

\* GET /api/votes/:targetType/:targetId (routes/votes.js)
votesGet(d, u, tt, id) == Resp(d, 200)

\* GET /api/users/:id (routes/users.js)
usersGet(d, id) == IF id \notin DOMAIN d.users THEN Resp(d, 404) ELSE Resp(d, 200)

\* GET /api/users/:id/questions and GET /api/users/:id/answers (routes/users.js)
usersQuestions(d, id) == Resp(d, 200)

usersAnswers(d, id) == Resp(d, 200)

\* ------------------------------------------------------------------ routes/comments.js
\* POST /api/comments
commentsCreate(d, u, hasBody, tt, id) ==
  IF ~hasBody THEN Resp(d, 400)
  ELSE IF tt \notin TargetTypes THEN Resp(d, 400)
  ELSE IF ~FindTarget(d, tt, id) THEN Resp(d, 404)
  ELSE Resp([d EXCEPT !.comments = @ @@ (d.nextId :> NewComment(u, tt, id)),
                      !.nextId = @ + 1], 201)

\* DELETE /api/comments/:id (routes/comments.js)
commentsDelete(d, u, id) ==
  IF id \notin DOMAIN d.comments THEN Resp(d, 404)
  ELSE IF d.comments[id].author # u THEN Resp(d, 403)
  ELSE Resp([d EXCEPT !.comments = Remove(@, {id})], 200)

\* POST /api/comments, in the copy of the comments router that looks the
\* requester up before creating
commentsCreateChecked(d, u, hasBody, tt, id) ==
  IF ~hasBody THEN Resp(d, 400)
  ELSE IF tt \notin TargetTypes THEN Resp(d, 400)
  ELSE IF ~FindTarget(d, tt, id) THEN Resp(d, 404)
  ELSE IF u \notin DOMAIN d.users THEN Resp(d, 404)
  ELSE Resp([d EXCEPT !.comments = @ @@ (d.nextId :> NewComment(u, tt, id)),
                      !.nextId = @ + 1], 201)

\* DELETE /api/comments/:id, in the copy of the comments router that admits an
\* admin
commentsDeleteOrAdmin(d, u, id) ==
  IF id \notin DOMAIN d.comments THEN Resp(d, 404)
  ELSE IF d.comments[id].author # u /\ u \notin DOMAIN d.users THEN Resp(d, 500)
  ELSE IF d.comments[id].author # u /\ d.users[u].role # "admin" THEN Resp(d, 403)
  ELSE Resp([d EXCEPT !.comments = Remove(@, {id})], 200)

\* ------------------------------------------------------------------ routes/users.js
\* PUT /api/users/:id; username is NoName when the request carries none, bio is
\* NoBio when the request's bio is undefined.
usersUpdate(d, u, id, username, bio) ==
  IF id # u THEN Resp(d, 403)
  ELSE IF id \notin DOMAIN d.users THEN Resp(d, 404)
  ELSE
    LET user == d.users[id]
        changes == username # NoName /\ username # user.username
        usernameExists == \E w \in DOMAIN d.users : d.users[w].username = username
        doc == [user EXCEPT !.username = IF changes THEN username ELSE @,
                            !.bio = IF bio # NoBio THEN bio ELSE @]
    IN IF changes /\ usernameExists THEN Resp(d, 400)
       ELSE Resp([d EXCEPT !.users[id] = Save(@, user, doc)], 200)

\* ------------------------------------------------------------------ index.js
\* Mutant of MountOrder: the answers router is mounted before the questions router.
MountOrderAnswersFirst == <<"answers", "questions">>

\* app.use('/api/questions', questionRoutes);
\* app.use('/api/questions/:questionId/answers', answerRoutes);
\* Express offers a request to the routers in mounting order and the first router
\* with a matching route answers it.
MountOrder == <<"questions", "answers">>

\* The routes under /api/questions/:id/answers each router defines.
AnswerRoutes(router) ==
  IF router = "questions"
    THEN {"createAnswer", "updateAnswer", "deleteAnswer", "acceptAnswer",
          "upvoteAnswer", "downvoteAnswer", "verifyAnswer", "unverifyAnswer"}
    ELSE {"createAnswer", "updateAnswer", "deleteAnswer", "acceptAnswer"}

ServingRouter(route) ==
  MountOrder[CHOOSE i \in 1..Len(MountOrder) :
               /\ route \in AnswerRoutes(MountOrder[i])
               /\ \A j \in 1..(i - 1) : route \notin AnswerRoutes(MountOrder[j])]

\* ------------------------------------------------------------------ requests in service
\* Every handler is an async function: it runs to its next await, and while the
\* datastore call it awaits is pending the handlers of other requests run. A
\* request in service is a record of the handler (h), the datastore call it
\* makes next (pc), the requester (u), the request's parameters and the
\* documents the handler has loaded.
Idle == [pc |-> "idle"]

AllIdle == \A s \in Slots : inflight[s].pc = "idle"

\* The outcome of one datastore call of a request: the store after the call, the
\* request afterwards (Idle once the response is sent), the status of the
\* response (0 while the request is in service) and the index of the Vote
\* document the call deleted (0 when it deleted none).
Goes(d, r) == [db |-> d, r |-> r, status |-> 0, removed |-> 0]

Ends(d, status) == [db |-> d, r |-> Idle, status |-> status, removed |-> 0]

\* The writes are made: the handler reads the document of the response body,
\* Model.findById(...).populate(...), and answers.
Responds(r, status) ==
  [pc |-> "findById.populate", h |-> r.h, u |-> r.u, id |-> r.id, status |-> status,
   left |-> 0]

\* The reads of the response body of GET /api/questions/:id: the answers of the
\* question, the comments of each answer (one Comment.find per answer, left
\* counts those still to be served) and the comments of the question.
ResponseReads == {"findById.populate", "Answer.find", "Comment.find(answer)", "Comment.find"}

ReadCall(d, r) ==
  CASE r.pc = "findById.populate" -> Ends(d, r.status)
    [] r.pc = "Answer.find" ->
         LET n == Cardinality({a \in DOMAIN d.answers : d.answers[a].questionId = r.id})
         IN Goes(d, [r EXCEPT !.left = n,
                              !.pc = IF n > 0 THEN "Comment.find(answer)" ELSE "Comment.find"])
    [] r.pc = "Comment.find(answer)" ->
         Goes(d, [r EXCEPT !.left = @ - 1,
                           !.pc = IF r.left > 1 THEN "Comment.find(answer)" ELSE "Comment.find"])
    [] r.pc = "Comment.find" -> Ends(d, r.status)

\* document.save() of a question, an answer or a user: Mongoose throws
\* DocumentNotFoundError when the document is no longer stored (with or without
\* modified paths), and the catch answers 500.
SaveQuestion(d, r, id, loaded, doc, status) ==
  IF id \notin DOMAIN d.questions THEN Ends(d, 500)
  ELSE Goes([d EXCEPT !.questions[id] = Save(@, loaded, doc)], Responds(r, status))

SaveAnswer(d, r, id, loaded, doc, status) ==
  IF id \notin DOMAIN d.answers THEN Ends(d, 500)
  ELSE Goes([d EXCEPT !.answers[id] = Save(@, loaded, doc)], Responds(r, status))

\* ------------------------------------------------------------------ routes/questions.js, call by call
questionsGetBegin(u, id) ==
  [h |-> "questionsGet", pc |-> "Question.findById", u |-> u, id |-> id, question |-> Null]

questionsGetCall(d, r) ==
  CASE r.pc = "Question.findById" ->
         IF r.id \notin DOMAIN d.questions THEN Ends(d, 404)
         ELSE Goes(d, [r EXCEPT !.question = d.questions[r.id], !.pc = "question.save"])
    [] r.pc = "question.save" ->
         LET hasViewed == \E k \in 1..Len(r.question.viewers) : r.question.viewers[k] = r.u
         IN IF r.id \notin DOMAIN d.questions THEN Ends(d, 500)
            ELSE IF r.u # NoUser /\ ~hasViewed
              THEN Goes([d EXCEPT !.questions[r.id] = SaveView(@, r.question, r.u)],
                        [Responds(r, 200) EXCEPT !.pc = "Answer.find"])
            ELSE Goes(d, [Responds(r, 200) EXCEPT !.pc = "Answer.find"])

questionsCreateBegin(u, hasTitleAndBody) ==
  [h |-> "questionsCreate", pc |-> "Question.create", u |-> u, id |-> Null,
   hasTitleAndBody |-> hasTitleAndBody]

questionsCreateCall(d, r) ==
  CASE r.pc = "Question.create" ->
         IF ~r.hasTitleAndBody THEN Ends(d, 400)
         ELSE Goes([d EXCEPT !.questions = @ @@ (d.nextId :> NewQuestion(r.u)),
                             !.nextId = @ + 1], Responds(r, 201))

questionsUpdateBegin(u, id, title, body, tags) ==
  [h |-> "questionsUpdate", pc |-> "Question.findById", u |-> u, id |-> id,
   title |-> title, body |-> body, tags |-> tags, question |-> Null]

questionsUpdateCall(d, r) ==
  CASE r.pc = "Question.findById" ->
         IF r.id \notin DOMAIN d.questions THEN Ends(d, 404)
         ELSE Goes(d, [r EXCEPT !.question = d.questions[r.id], !.pc = "User.findById"])
    [] r.pc = "User.findById" ->
         IF r.question.asker # r.u /\ r.u \notin DOMAIN d.users THEN Ends(d, 500)
         ELSE IF r.question.asker # r.u /\ d.users[r.u].role # "admin" THEN Ends(d, 403)
         ELSE Goes(d, [r EXCEPT !.pc = "question.save"])
    [] r.pc = "question.save" ->
         LET doc == Updated(r.question, r.title, r.body, r.tags)
         IN IF r.id \notin DOMAIN d.questions THEN Ends(d, 500)
            ELSE IF doc.tags # r.question.tags
                    /\ d.questions[r.id].version # r.question.version THEN Ends(d, 500)
            ELSE SaveQuestion(d, r, r.id, r.question, doc, 200)

questionsDeleteBegin(u, id) ==
  [h |-> "questionsDelete", pc |-> "Question.findById", u |-> u, id |-> id,
   question |-> Null]

questionsDeleteCall(d, r) ==
  CASE r.pc = "Question.findById" ->
         IF r.id \notin DOMAIN d.questions THEN Ends(d, 404)
         ELSE Goes(d, [r EXCEPT !.question = d.questions[r.id], !.pc = "User.findById"])
    [] r.pc = "User.findById" ->
         IF r.question.asker # r.u /\ r.u \notin DOMAIN d.users THEN Ends(d, 500)
         ELSE IF r.question.asker # r.u /\ d.users[r.u].role # "admin" THEN Ends(d, 403)
         ELSE Goes(d, [r EXCEPT !.question = Null, !.pc = "Answer.deleteMany"])
    [] r.pc = "Answer.deleteMany" ->
         Goes([d EXCEPT !.answers = Remove(@, {a \in DOMAIN @ : @[a].questionId = r.id})],
              [r EXCEPT !.pc = "Comment.deleteMany"])
    [] r.pc = "Comment.deleteMany" ->
         Goes([d EXCEPT !.comments =
                 Remove(@, {c \in DOMAIN @ :
                              @[c].targetType = "question" /\ @[c].targetId = r.id})],
              [r EXCEPT !.pc = "question.deleteOne"])
    [] r.pc = "question.deleteOne" ->
         Ends([d EXCEPT !.questions = Remove(@, {r.id} \cap DOMAIN @)], 200)

questionsCreateAnswerBegin(u, qid, hasBody) ==
  [h |-> "questionsCreateAnswer", pc |-> "Question.findById", u |-> u, id |-> qid,
   hasBody |-> hasBody]

questionsCreateAnswerCall(d, r) ==
  CASE r.pc = "Question.findById" ->
         IF ~r.hasBody THEN Ends(d, 400)
         ELSE IF r.id \notin DOMAIN d.questions THEN Ends(d, 404)
         ELSE Goes(d, [r EXCEPT !.pc = "Answer.create"])
    [] r.pc = "Answer.create" ->
         Goes([d EXCEPT !.answers = @ @@ (d.nextId :> NewAnswer(r.u, r.id)),
                        !.nextId = @ + 1], Responds(r, 201))

questionsUpdateAnswerBegin(u, qid, aid, body) ==
  [h |-> "questionsUpdateAnswer", pc |-> "Answer.findById", u |-> u, id |-> aid,
   qid |-> qid, body |-> body, answer |-> Null]

questionsUpdateAnswerCall(d, r) ==
  CASE r.pc = "Answer.findById" ->
         IF r.body = Null THEN Ends(d, 400)
         ELSE IF r.id \notin DOMAIN d.answers THEN Ends(d, 404)
         ELSE IF d.answers[r.id].answerer # r.u THEN Ends(d, 403)
         ELSE Goes(d, [r EXCEPT !.answer = d.answers[r.id], !.pc = "answer.save"])
    [] r.pc = "answer.save" ->
         SaveAnswer(d, r, r.id, r.answer, [r.answer EXCEPT !.body = r.body], 200)

questionsDeleteAnswerBegin(u, qid, aid) ==
  [h |-> "questionsDeleteAnswer", pc |-> "Answer.findById", u |-> u, id |-> aid,
   qid |-> qid, answerer |-> NoUser]

questionsDeleteAnswerCall(d, r) ==
  CASE r.pc = "Answer.findById" ->
         IF r.id \notin DOMAIN d.answers THEN Ends(d, 404)
         ELSE Goes(d, [r EXCEPT !.answerer = d.answers[r.id].answerer,
                                !.pc = "User.findById"])
    [] r.pc = "User.findById" ->
         IF r.answerer # r.u /\ r.u \notin DOMAIN d.users THEN Ends(d, 500)
         ELSE IF r.answerer # r.u /\ d.users[r.u].role # "admin" THEN Ends(d, 403)
         ELSE Goes(d, [r EXCEPT !.pc = "answer.deleteOne"])
    [] r.pc = "answer.deleteOne" ->
         Goes([d EXCEPT !.answers = Remove(@, {r.id} \cap DOMAIN @)],
              [r EXCEPT !.pc = "Comment.deleteMany"])
    [] r.pc = "Comment.deleteMany" ->
         Ends([d EXCEPT !.comments =
                 Remove(@, {c \in DOMAIN @ :
                              @[c].targetType = "answer" /\ @[c].targetId = r.id})], 200)

questionsVoteBegin(u, id, n) ==
  [h |-> "questionsVote", pc |-> "Question.findById", u |-> u, id |-> id, n |-> n,
   question |-> Null]

questionsVoteCall(d, r) ==
  CASE r.pc = "Question.findById" ->
         IF r.id \notin DOMAIN d.questions THEN Ends(d, 404)
         ELSE IF d.questions[r.id].asker = r.u THEN Ends(d, 400)
         ELSE Goes(d, [r EXCEPT !.question = d.questions[r.id], !.pc = "question.save"])
    [] r.pc = "question.save" ->
         SaveQuestion(d, r, r.id, r.question, [r.question EXCEPT !.votes = @ + r.n], 200)

questionsVoteAnswerBegin(u, qid, aid, n) ==
  [h |-> "questionsVoteAnswer", pc |-> "Answer.findById", u |-> u, id |-> aid,
   qid |-> qid, n |-> n, answer |-> Null]

questionsVoteAnswerCall(d, r) ==
  CASE r.pc = "Answer.findById" ->
         IF r.id \notin DOMAIN d.answers THEN Ends(d, 404)
         ELSE IF d.answers[r.id].answerer = r.u THEN Ends(d, 400)
         ELSE Goes(d, [r EXCEPT !.answer = d.answers[r.id], !.pc = "answer.save"])
    [] r.pc = "answer.save" ->
         SaveAnswer(d, r, r.id, r.answer, [r.answer EXCEPT !.votes = @ + r.n], 200)

questionsAcceptBegin(u, qid, aid) ==
  [h |-> "questionsAccept", pc |-> "Question.findById", u |-> u, id |-> qid,
   aid |-> aid, question |-> Null, answer |-> Null, old |-> Null]

questionsAcceptCall(d, r) ==
  CASE r.pc = "Question.findById" ->
         IF r.id \notin DOMAIN d.questions THEN Ends(d, 404)
         ELSE IF d.questions[r.id].asker # r.u THEN Ends(d, 403)
         ELSE Goes(d, [r EXCEPT !.question = d.questions[r.id], !.pc = "Answer.findById"])
    [] r.pc = "Answer.findById" ->
         IF r.aid \notin DOMAIN d.answers THEN Ends(d, 404)
         ELSE IF d.answers[r.aid].questionId # r.id THEN Ends(d, 400)
         ELSE Goes(d, [r EXCEPT !.answer = d.answers[r.aid],
                                !.pc = IF r.question.acceptedAnswer # Null
                                         THEN "Answer.findById(old)" ELSE "answer.save"])
    [] r.pc = "Answer.findById(old)" ->
         IF r.question.acceptedAnswer \in DOMAIN d.answers
           THEN Goes(d, [r EXCEPT !.old = d.answers[r.question.acceptedAnswer],
                                  !.pc = "old.save"])
           ELSE Goes(d, [r EXCEPT !.pc = "answer.save"])
    [] r.pc = "old.save" ->
         IF r.question.acceptedAnswer \notin DOMAIN d.answers THEN Ends(d, 500)
         ELSE Goes([d EXCEPT !.answers[r.question.acceptedAnswer] =
                      Save(@, r.old, [r.old EXCEPT !.isAccepted = FALSE])],
                   [r EXCEPT !.old = Null, !.pc = "answer.save"])
    [] r.pc = "answer.save" ->
         IF r.aid \notin DOMAIN d.answers THEN Ends(d, 500)
         ELSE Goes([d EXCEPT !.answers[r.aid] =
                      Save(@, r.answer, [r.answer EXCEPT !.isAccepted = TRUE])],
                   [r EXCEPT !.answer = Null, !.pc = "question.save"])
    [] r.pc = "question.save" ->
         SaveQuestion(d, r, r.id, r.question,
                      [r.question EXCEPT !.acceptedAnswer = r.aid], 200)

\* POST /api/questions/:id/pin (pinned = TRUE) and /unpin (pinned = FALSE)
questionsPinBegin(u, id, pinned) ==
  [h |-> "questionsPin", pc |-> "Question.findById", u |-> u, id |-> id,
   pinned |-> pinned, question |-> Null]

questionsPinCall(d, r) ==
  CASE r.pc = "Question.findById" ->
         IF r.id \notin DOMAIN d.questions THEN Ends(d, 404)
         ELSE Goes(d, [r EXCEPT !.question = d.questions[r.id], !.pc = "User.findById"])
    [] r.pc = "User.findById" ->
         IF r.u \notin DOMAIN d.users THEN Ends(d, 500)
         ELSE IF d.users[r.u].role # "expert" /\ d.users[r.u].role # "admin" THEN Ends(d, 403)
         ELSE IF d.users[r.u].role # "admin" /\ r.question.asker # r.u THEN Ends(d, 403)
         ELSE Goes(d, [r EXCEPT !.pc = "question.save"])
    [] r.pc = "question.save" ->
         SaveQuestion(d, r, r.id, r.question, [r.question EXCEPT !.isPinned = r.pinned], 200)

\* POST /api/questions/:id/answers/:answerId/verify (verified = TRUE) and
\* /unverify (verified = FALSE)
questionsVerifyBegin(u, qid, aid, verified) ==
  [h |-> "questionsVerify", pc |-> "Answer.findById", u |-> u, id |-> aid,
   qid |-> qid, verified |-> verified, answer |-> Null]

questionsVerifyCall(d, r) ==
  CASE r.pc = "Answer.findById" ->
         IF r.id \notin DOMAIN d.answers THEN Ends(d, 404)
         ELSE Goes(d, [r EXCEPT !.answer = d.answers[r.id], !.pc = "User.findById"])
    [] r.pc = "User.findById" ->
         IF r.u \notin DOMAIN d.users THEN Ends(d, 500)
         ELSE IF d.users[r.u].role # "expert" /\ d.users[r.u].role # "admin" THEN Ends(d, 403)
         ELSE IF r.verified /\ d.users[r.u].role = "expert" /\ r.answer.answerer = r.u
           THEN Ends(d, 403)
         ELSE IF ~r.verified /\ d.users[r.u].role # "admin" /\ r.answer.verifiedBy # r.u
           THEN Ends(d, 403)
         ELSE Goes(d, [r EXCEPT !.pc = "answer.save"])
    [] r.pc = "answer.save" ->
         SaveAnswer(d, r, r.id, r.answer,
                    IF r.verified
                      THEN [r.answer EXCEPT !.isVerified = TRUE, !.verifiedBy = r.u]
                      ELSE [r.answer EXCEPT !.isVerified = FALSE, !.verifiedBy = NullVerifier],
                    200)

\* ------------------------------------------------------------------ routes/answers.js, call by call
answersCreateBegin(u, qid, hasBody) ==
  [h |-> "answersCreate", pc |-> "Question.findById", u |-> u, id |-> qid,
   hasBody |-> hasBody]

answersCreateCall(d, r) ==
  CASE r.pc = "Question.findById" ->
         IF ~r.hasBody THEN Ends(d, 400)
         ELSE IF r.id \notin DOMAIN d.questions THEN Ends(d, 404)
         ELSE Goes(d, [r EXCEPT !.pc = "Answer.create"])
    [] r.pc = "Answer.create" ->
         Goes([d EXCEPT !.answers = @ @@ (d.nextId :> NewAnswer(r.u, r.id)),
                        !.nextId = @ + 1], Responds(r, 201))

answersAcceptBegin(u, qid, aid) ==
  [h |-> "answersAccept", pc |-> "Answer.findById", u |-> u, id |-> aid, qid |-> qid,
   question |-> Null, answer |-> Null, old |-> Null]

answersAcceptCall(d, r) ==
  CASE r.pc = "Answer.findById" ->
         IF r.id \notin DOMAIN d.answers THEN Ends(d, 404)
         ELSE Goes(d, [r EXCEPT !.answer = d.answers[r.id], !.pc = "Question.findById"])
    [] r.pc = "Question.findById" ->
         IF r.answer.questionId \notin DOMAIN d.questions THEN Ends(d, 404)
         ELSE IF d.questions[r.answer.questionId].asker # r.u THEN Ends(d, 403)
         ELSE Goes(d, [r EXCEPT !.question = d.questions[r.answer.questionId],
                                !.pc = IF d.questions[r.answer.questionId].acceptedAnswer # Null
                                         THEN "Answer.findById(prev)" ELSE "answer.save"])
    [] r.pc = "Answer.findById(prev)" ->
         IF r.question.acceptedAnswer \in DOMAIN d.answers
           THEN Goes(d, [r EXCEPT !.old = d.answers[r.question.acceptedAnswer],
                                  !.pc = "prev.save"])
           ELSE Goes(d, [r EXCEPT !.pc = "answer.save"])
    [] r.pc = "prev.save" ->
         IF r.question.acceptedAnswer \notin DOMAIN d.answers THEN Ends(d, 500)
         ELSE Goes([d EXCEPT !.answers[r.question.acceptedAnswer] =
                      Save(@, r.old, [r.old EXCEPT !.isAccepted = FALSE])],
                   [r EXCEPT !.pc = "User.findByIdAndUpdate(prev)"])
    [] r.pc = "User.findByIdAndUpdate(prev)" ->
         Goes([d EXCEPT !.users = IncReputation(@, r.old.answerer, -AcceptBonus)],
              [r EXCEPT !.old = Null, !.pc = "answer.save"])
    [] r.pc = "answer.save" ->
         IF r.id \notin DOMAIN d.answers THEN Ends(d, 500)
         ELSE Goes([d EXCEPT !.answers[r.id] =
                      Save(@, r.answer, [r.answer EXCEPT !.isAccepted = TRUE])],
                   [r EXCEPT !.pc = "question.save"])
    [] r.pc = "question.save" ->
         IF r.answer.questionId \notin DOMAIN d.questions THEN Ends(d, 500)
         ELSE Goes([d EXCEPT !.questions[r.answer.questionId] =
                      Save(@, r.question, [r.question EXCEPT !.acceptedAnswer = r.id])],
                   [r EXCEPT !.question = Null, !.pc = "User.findByIdAndUpdate"])
    [] r.pc = "User.findByIdAndUpdate" ->
         Goes([d EXCEPT !.users = IncReputation(@, r.answer.answerer, AcceptBonus)],
              Responds(r, 200))

answersUpdateBegin(u, qid, aid, body) ==
  [h |-> "answersUpdate", pc |-> "Answer.findById", u |-> u, id |-> aid, qid |-> qid,
   body |-> body, answer |-> Null]

answersUpdateCall(d, r) ==
  CASE r.pc = "Answer.findById" ->
         IF r.id \notin DOMAIN d.answers THEN Ends(d, 404)
         ELSE IF d.answers[r.id].answerer # r.u THEN Ends(d, 403)
         ELSE Goes(d, [r EXCEPT !.answer = d.answers[r.id], !.pc = "answer.save"])
    [] r.pc = "answer.save" ->
         SaveAnswer(d, r, r.id, r.answer,
                    [r.answer EXCEPT !.body = IF r.body # Null THEN r.body ELSE @], 200)

answersDeleteBegin(u, qid, aid) ==
  [h |-> "answersDelete", pc |-> "Answer.findById", u |-> u, id |-> aid, qid |-> qid,
   answerer |-> NoUser]

answersDeleteCall(d, r) ==
  CASE r.pc = "Answer.findById" ->
         IF r.id \notin DOMAIN d.answers THEN Ends(d, 404)
         ELSE Goes(d, [r EXCEPT !.answerer = d.answers[r.id].answerer,
                                !.pc = "User.findById"])
    [] r.pc = "User.findById" ->
         IF r.u \notin DOMAIN d.users THEN Ends(d, 500)
         ELSE IF r.answerer # r.u /\ d.users[r.u].role # "admin" THEN Ends(d, 403)
         ELSE Goes(d, [r EXCEPT !.pc = "answer.deleteOne"])
    [] r.pc = "answer.deleteOne" ->
         Ends([d EXCEPT !.answers = Remove(@, {r.id} \cap DOMAIN @)], 200)

\* ------------------------------------------------------------------ routes/comments.js, call by call
commentsCreateBegin(u, hasBody, tt, id) ==
  [h |-> "commentsCreate", pc |-> "Model.findById", u |-> u, id |-> id,
   hasBody |-> hasBody, tt |-> tt]

commentsCreateCall(d, r) ==
  CASE r.pc = "Model.findById" ->
         IF ~r.hasBody THEN Ends(d, 400)
         ELSE IF r.tt \notin TargetTypes THEN Ends(d, 400)
         ELSE IF ~FindTarget(d, r.tt, r.id) THEN Ends(d, 404)
         ELSE Goes(d, [r EXCEPT !.pc = "Comment.create"])
    [] r.pc = "Comment.create" ->
         Goes([d EXCEPT !.comments = @ @@ (d.nextId :> NewComment(r.u, r.tt, r.id)),
                        !.nextId = @ + 1], Responds(r, 201))

commentsDeleteBegin(u, id) ==
  [h |-> "commentsDelete", pc |-> "Comment.findById", u |-> u, id |-> id]

commentsDeleteCall(d, r) ==
  CASE r.pc = "Comment.findById" ->
         IF r.id \notin DOMAIN d.comments THEN Ends(d, 404)
         ELSE IF d.comments[r.id].author # r.u THEN Ends(d, 403)
         ELSE Goes(d, [r EXCEPT !.pc = "comment.deleteOne"])
    [] r.pc = "comment.deleteOne" ->
         Ends([d EXCEPT !.comments = Remove(@, {r.id} \cap DOMAIN @)], 200)

\* The copy of the comments router that looks the requester up: POST answers
\* 404 when the requester is not stored; DELETE admits the author or an admin and
\* reads the role only when the requester is not the author.
commentsCreateCheckedBegin(u, hasBody, tt, id) ==
  [h |-> "commentsCreateChecked", pc |-> "Model.findById", u |-> u, id |-> id,
   hasBody |-> hasBody, tt |-> tt]

commentsCreateCheckedCall(d, r) ==
  CASE r.pc = "Model.findById" ->
         IF ~r.hasBody THEN Ends(d, 400)
         ELSE IF r.tt \notin TargetTypes THEN Ends(d, 400)
         ELSE IF ~FindTarget(d, r.tt, r.id) THEN Ends(d, 404)
         ELSE Goes(d, [r EXCEPT !.pc = "User.findById"])
    [] r.pc = "User.findById" ->
         IF r.u \notin DOMAIN d.users THEN Ends(d, 404)
         ELSE Goes(d, [r EXCEPT !.pc = "Comment.create"])
    [] r.pc = "Comment.create" ->
         Goes([d EXCEPT !.comments = @ @@ (d.nextId :> NewComment(r.u, r.tt, r.id)),
                        !.nextId = @ + 1], Responds(r, 201))

commentsDeleteOrAdminBegin(u, id) ==
  [h |-> "commentsDeleteOrAdmin", pc |-> "Comment.findById", u |-> u, id |-> id,
   author |-> NoUser]

commentsDeleteOrAdminCall(d, r) ==
  CASE r.pc = "Comment.findById" ->
         IF r.id \notin DOMAIN d.comments THEN Ends(d, 404)
         ELSE Goes(d, [r EXCEPT !.author = d.comments[r.id].author,
                                !.pc = "User.findById"])
    [] r.pc = "User.findById" ->
         IF r.author # r.u /\ r.u \notin DOMAIN d.users THEN Ends(d, 500)
         ELSE IF r.author # r.u /\ d.users[r.u].role # "admin" THEN Ends(d, 403)
         ELSE Goes(d, [r EXCEPT !.pc = "comment.deleteOne"])
    [] r.pc = "comment.deleteOne" ->
         Ends([d EXCEPT !.comments = Remove(@, {r.id} \cap DOMAIN @)], 200)

\* ------------------------------------------------------------------ the answers router of /api/answers, call by call
apiAnswersCreateBegin(u, questionId, hasBody) ==
  [h |-> "apiAnswersCreate", pc |-> "Question.findById", u |-> u, id |-> questionId,
   hasBody |-> hasBody]

apiAnswersCreateCall(d, r) ==
  CASE r.pc = "Question.findById" ->
         IF ~r.hasBody THEN Ends(d, 400)
         ELSE IF r.id \notin DOMAIN d.questions THEN Ends(d, 404)
         ELSE Goes(d, [r EXCEPT !.pc = "Answer.create"])
    [] r.pc = "Answer.create" ->
         Goes([d EXCEPT !.answers = @ @@ (d.nextId :> NewAnswer(r.u, r.id)),
                        !.nextId = @ + 1], Responds(r, 201))

apiAnswersAcceptBegin(u, aid) ==
  [h |-> "apiAnswersAccept", pc |-> "Answer.findById", u |-> u, id |-> aid,
   question |-> Null, answer |-> Null, old |-> Null]

apiAnswersAcceptCall(d, r) ==
  CASE r.pc = "Answer.findById" ->
         IF r.id \notin DOMAIN d.answers THEN Ends(d, 404)
         ELSE Goes(d, [r EXCEPT !.answer = d.answers[r.id], !.pc = "Question.findById"])
    [] r.pc = "Question.findById" ->
         IF r.answer.questionId \notin DOMAIN d.questions THEN Ends(d, 404)
         ELSE IF d.questions[r.answer.questionId].asker # r.u THEN Ends(d, 403)
         ELSE Goes(d, [r EXCEPT !.question = d.questions[r.answer.questionId],
                                !.pc = IF d.questions[r.answer.questionId].acceptedAnswer # Null
                                         THEN "Answer.findById(prev)" ELSE "answer.save"])
    [] r.pc = "Answer.findById(prev)" ->
         IF r.question.acceptedAnswer \in DOMAIN d.answers
           THEN Goes(d, [r EXCEPT !.old = d.answers[r.question.acceptedAnswer],
                                  !.pc = "prev.save"])
           ELSE Goes(d, [r EXCEPT !.pc = "answer.save"])
    [] r.pc = "prev.save" ->
         IF r.question.acceptedAnswer \notin DOMAIN d.answers THEN Ends(d, 500)
         ELSE Goes([d EXCEPT !.answers[r.question.acceptedAnswer] =
                      Save(@, r.old, [r.old EXCEPT !.isAccepted = FALSE])],
                   [r EXCEPT !.pc = "User.findByIdAndUpdate(prev)"])
    [] r.pc = "User.findByIdAndUpdate(prev)" ->
         Goes([d EXCEPT !.users = IncReputation(@, r.old.answerer, -AcceptBonus)],
              [r EXCEPT !.old = Null, !.pc = "answer.save"])
    [] r.pc = "answer.save" ->
         IF r.id \notin DOMAIN d.answers THEN Ends(d, 500)
         ELSE Goes([d EXCEPT !.answers[r.id] =
                      Save(@, r.answer, [r.answer EXCEPT !.isAccepted = TRUE])],
                   [r EXCEPT !.pc = "question.save"])
    [] r.pc = "question.save" ->
         IF r.answer.questionId \notin DOMAIN d.questions THEN Ends(d, 500)
         ELSE Goes([d EXCEPT !.questions[r.answer.questionId] =
                      Save(@, r.question, [r.question EXCEPT !.acceptedAnswer = r.id])],
                   [r EXCEPT !.question = Null, !.pc = "User.findByIdAndUpdate"])
    [] r.pc = "User.findByIdAndUpdate" ->
         Goes([d EXCEPT !.users = IncReputation(@, r.answer.answerer, AcceptBonus)],
              Responds(r, 200))

apiAnswersUpdateBegin(u, id, body) ==
  [h |-> "apiAnswersUpdate", pc |-> "Answer.findById", u |-> u, id |-> id,
   body |-> body, answer |-> Null]

apiAnswersUpdateCall(d, r) ==
  CASE r.pc = "Answer.findById" ->
         IF r.id \notin DOMAIN d.answers THEN Ends(d, 404)
         ELSE IF d.answers[r.id].answerer # r.u THEN Ends(d, 403)
         ELSE Goes(d, [r EXCEPT !.answer = d.answers[r.id], !.pc = "answer.save"])
    [] r.pc = "answer.save" ->
         SaveAnswer(d, r, r.id, r.answer,
                    [r.answer EXCEPT !.body = IF r.body # Null THEN r.body ELSE @], 200)

apiAnswersDeleteBegin(u, id) ==
  [h |-> "apiAnswersDelete", pc |-> "Answer.findById", u |-> u, id |-> id]

apiAnswersDeleteCall(d, r) ==
  CASE r.pc = "Answer.findById" ->
         IF r.id \notin DOMAIN d.answers THEN Ends(d, 404)
         ELSE IF d.answers[r.id].answerer # r.u THEN Ends(d, 403)
         ELSE Goes(d, [r EXCEPT !.pc = "answer.deleteOne"])
    [] r.pc = "answer.deleteOne" ->
         Ends([d EXCEPT !.answers = Remove(@, {r.id} \cap DOMAIN @)], 200)

\* ------------------------------------------------------------------ handlers that only read, call by call
\* left counts the Answer.countDocuments calls of the Promise.all still to be
\* served, one per question found.
questionsListBegin(tags) ==
  [h |-> "questionsList", pc |-> "Question.find", u |-> NoUser, id |-> Null,
   tags |-> tags, left |-> 0]

questionsListCall(d, r) ==
  CASE r.pc = "Question.find" ->
         IF r.tags = RepeatedTags THEN Ends(d, 500)
         ELSE Goes(d, [r EXCEPT !.left = Cardinality(Found(d, r.tags)),
                                !.pc = "Question.countDocuments"])
    [] r.pc = "Question.countDocuments" ->
         IF r.left = 0 THEN Ends(d, 200)
         ELSE Goes(d, [r EXCEPT !.pc = "Answer.countDocuments"])
    [] r.pc = "Answer.countDocuments" ->
         IF r.left > 1 THEN Goes(d, [r EXCEPT !.left = @ - 1]) ELSE Ends(d, 200)

votesGetBegin(u, tt, id) ==
  [h |-> "votesGet", pc |-> "Vote.findOne", u |-> u, id |-> id, tt |-> tt]

votesGetCall(d, r) ==
  CASE r.pc = "Vote.findOne" -> Ends(d, 200)

usersGetBegin(id) ==
  [h |-> "usersGet", pc |-> "User.findById", u |-> NoUser, id |-> id]

usersGetCall(d, r) ==
  CASE r.pc = "User.findById" ->
         IF r.id \notin DOMAIN d.users THEN Ends(d, 404)
         ELSE Goes(d, [r EXCEPT !.pc = "Question.countDocuments"])
    [] r.pc = "Question.countDocuments" -> Goes(d, [r EXCEPT !.pc = "Answer.countDocuments"])
    [] r.pc = "Answer.countDocuments" -> Ends(d, 200)

usersQuestionsBegin(id) ==
  [h |-> "usersQuestions", pc |-> "Question.find", u |-> NoUser, id |-> id, left |-> 0]

usersQuestionsCall(d, r) ==
  CASE r.pc = "Question.find" ->
         Goes(d, [r EXCEPT !.left = Cardinality(AskedBy(d, r.id)),
                           !.pc = "Question.countDocuments"])
    [] r.pc = "Question.countDocuments" ->
         IF r.left = 0 THEN Ends(d, 200)
         ELSE Goes(d, [r EXCEPT !.pc = "Answer.countDocuments"])
    [] r.pc = "Answer.countDocuments" ->
         IF r.left > 1 THEN Goes(d, [r EXCEPT !.left = @ - 1]) ELSE Ends(d, 200)

usersAnswersBegin(id) ==
  [h |-> "usersAnswers", pc |-> "Answer.find.populate", u |-> NoUser, id |-> id]

usersAnswersCall(d, r) ==
  CASE r.pc = "Answer.find.populate" -> Goes(d, [r EXCEPT !.pc = "Answer.countDocuments"])
    [] r.pc = "Answer.countDocuments" -> Ends(d, 200)

\* ------------------------------------------------------------------ routes/votes.js, call by call
\* found is the Vote document Vote.findOne returned, as an index into the
\* collection: 0 when there is none, Gone once another request has deleted it.
Gone == -1

votesPostBegin(u, tt, id, v) ==
  [h |-> "votesPost", pc |-> "Model.findById", u |-> u, id |-> id, tt |-> tt, v |-> v,
   target |-> Null, found |-> 0, n |-> 0, status |-> 0]

votesPostCall(d, r) ==
  CASE r.pc = "Model.findById" ->
         IF r.tt \notin TargetTypes THEN Ends(d, 400)
         ELSE IF r.v \notin {1, -1} THEN Ends(d, 400)
         ELSE IF ~FindTarget(d, r.tt, r.id) THEN Ends(d, 404)
         ELSE Goes(d, [r EXCEPT !.target = IF r.tt = "question" THEN d.questions[r.id]
                                           ELSE d.answers[r.id],
                                !.pc = "Vote.findOne"])
    [] r.pc = "Vote.findOne" ->
         LET i == FindVote(d.votes, r.u, r.tt, r.id)
         IN IF i = 0
              THEN Goes(d, [r EXCEPT !.n = r.v, !.status = 201, !.pc = "Vote.create"])
            ELSE IF d.votes[i].value = r.v
              THEN Goes(d, [r EXCEPT !.found = i, !.n = -r.v, !.status = 200,
                                     !.pc = "existingVote.deleteOne"])
            ELSE Goes(d, [r EXCEPT !.found = i, !.n = r.v - d.votes[i].value,
                                   !.status = 200, !.pc = "existingVote.save"])
    [] r.pc = "Vote.create" ->
         Goes([d EXCEPT !.votes = Append(@, NewVote(r.u, r.tt, r.id, r.v))],
              [r EXCEPT !.pc = "target.save"])
    [] r.pc = "existingVote.deleteOne" ->
         IF r.found = Gone THEN Goes(d, [r EXCEPT !.found = 0, !.pc = "target.save"])
         ELSE [db |-> [d EXCEPT !.votes = RemoveAt(@, r.found)],
               r |-> [r EXCEPT !.found = 0, !.pc = "target.save"],
               status |-> 0, removed |-> r.found]
    [] r.pc = "existingVote.save" ->
         IF r.found = Gone THEN Ends(d, 500)
         ELSE Goes([d EXCEPT !.votes[r.found].value = r.v],
                   [r EXCEPT !.found = 0, !.pc = "target.save"])
    [] r.pc = "target.save" ->
         IF ~FindTarget(d, r.tt, r.id) THEN Ends(d, 500)
         ELSE Goes(IF r.tt = "question"
                     THEN [d EXCEPT !.questions[r.id] =
                             Save(@, r.target, [r.target EXCEPT !.votes = @ + r.n])]
                     ELSE [d EXCEPT !.answers[r.id] =
                             Save(@, r.target, [r.target EXCEPT !.votes = @ + r.n])],
                   [r EXCEPT !.pc = "User.findByIdAndUpdate"])
    [] r.pc = "User.findByIdAndUpdate" ->
         Ends([d EXCEPT !.users =
                 IncReputation(@, IF r.tt = "question" THEN r.target.asker
                                  ELSE r.target.answerer, r.n)],
              r.status)

\* The Vote document a request found, after another request deleted document k.
Shifted(r, k) ==
  IF k = 0 \/ r.pc \notin {"existingVote.deleteOne", "existingVote.save"} THEN r
  ELSE IF r.found = k THEN [r EXCEPT !.found = Gone]
  ELSE IF r.found > k THEN [r EXCEPT !.found = @ - 1]
  ELSE r

\* ------------------------------------------------------------------ routes/users.js, call by call
usersUpdateBegin(u, id, username, bio) ==
  [h |-> "usersUpdate", pc |-> "User.findById", u |-> u, id |-> id,
   username |-> username, bio |-> bio, user |-> Null]

usersUpdateCall(d, r) ==
  CASE r.pc = "User.findById" ->
         IF r.id # r.u THEN Ends(d, 403)
         ELSE IF r.id \notin DOMAIN d.users THEN Ends(d, 404)
         ELSE Goes(d, [r EXCEPT !.user = d.users[r.id],
                                !.pc = IF r.username # NoName
                                          /\ r.username # d.users[r.id].username
                                         THEN "User.findOne" ELSE "user.save"])
    [] r.pc = "User.findOne" ->
         IF \E w \in DOMAIN d.users : d.users[w].username = r.username THEN Ends(d, 400)
         ELSE Goes(d, [r EXCEPT !.pc = "user.save"])
    [] r.pc = "user.save" ->
         LET doc == [r.user EXCEPT
                       !.username = IF r.username # NoName THEN r.username ELSE @,
                       !.bio = IF r.bio # NoBio THEN r.bio ELSE @]
         IN IF r.id \notin DOMAIN d.users THEN Ends(d, 500)
            ELSE IF doc.username # r.user.username
               /\ \E w \in DOMAIN d.users \ {r.id} : d.users[w].username = doc.username
              THEN Ends(d, 500)
            ELSE Goes([d EXCEPT !.users[r.id] = Save(@, r.user, doc)], Responds(r, 200))

\* The handler that serves each request under /api/questions/:id/answers.
serveCreateAnswer(d, u, qid, hasBody) ==
  IF ServingRouter("createAnswer") = "questions"
    THEN questionsCreateAnswer(d, u, qid, hasBody)
    ELSE answersCreate(d, u, qid, hasBody)

serveDeleteAnswer(d, u, qid, aid) ==
  IF ServingRouter("deleteAnswer") = "questions"
    THEN questionsDeleteAnswer(d, u, qid, aid)
    ELSE answersDelete(d, u, qid, aid)

serveUpdateAnswer(d, u, qid, aid, body) ==
  IF ServingRouter("updateAnswer") = "questions"
    THEN questionsUpdateAnswer(d, u, qid, aid, body)
    ELSE answersUpdate(d, u, qid, aid, body)

serveAccept(d, u, qid, aid) ==
  IF ServingRouter("acceptAnswer") = "questions"
    THEN questionsAccept(d, u, qid, aid)
    ELSE answersAccept(d, u, qid, aid)

\* ------------------------------------------------------------------ index.js, call by call
serveCreateAnswerBegin(u, qid, hasBody) ==
  IF ServingRouter("createAnswer") = "questions"
    THEN questionsCreateAnswerBegin(u, qid, hasBody)
    ELSE answersCreateBegin(u, qid, hasBody)

serveDeleteAnswerBegin(u, qid, aid) ==
  IF ServingRouter("deleteAnswer") = "questions"
    THEN questionsDeleteAnswerBegin(u, qid, aid)
    ELSE answersDeleteBegin(u, qid, aid)

serveUpdateAnswerBegin(u, qid, aid, body) ==
  IF ServingRouter("updateAnswer") = "questions"
    THEN questionsUpdateAnswerBegin(u, qid, aid, body)
    ELSE answersUpdateBegin(u, qid, aid, body)

serveAcceptBegin(u, qid, aid) ==
  IF ServingRouter("acceptAnswer") = "questions"
    THEN questionsAcceptBegin(u, qid, aid)
    ELSE answersAcceptBegin(u, qid, aid)

\* The next datastore call of a request in service.
Call(d, r) ==
  IF r.pc \in ResponseReads THEN ReadCall(d, r)
  ELSE CASE r.h = "questionsGet" -> questionsGetCall(d, r)
         [] r.h = "questionsCreate" -> questionsCreateCall(d, r)
         [] r.h = "questionsUpdate" -> questionsUpdateCall(d, r)
         [] r.h = "questionsDelete" -> questionsDeleteCall(d, r)
         [] r.h = "questionsCreateAnswer" -> questionsCreateAnswerCall(d, r)
         [] r.h = "questionsUpdateAnswer" -> questionsUpdateAnswerCall(d, r)
         [] r.h = "questionsDeleteAnswer" -> questionsDeleteAnswerCall(d, r)
         [] r.h = "questionsVote" -> questionsVoteCall(d, r)
         [] r.h = "questionsVoteAnswer" -> questionsVoteAnswerCall(d, r)
         [] r.h = "questionsAccept" -> questionsAcceptCall(d, r)
         [] r.h = "questionsPin" -> questionsPinCall(d, r)
         [] r.h = "questionsVerify" -> questionsVerifyCall(d, r)
         [] r.h = "answersCreate" -> answersCreateCall(d, r)
         [] r.h = "answersAccept" -> answersAcceptCall(d, r)
         [] r.h = "answersUpdate" -> answersUpdateCall(d, r)
         [] r.h = "answersDelete" -> answersDeleteCall(d, r)
         [] r.h = "commentsCreate" -> commentsCreateCall(d, r)
         [] r.h = "commentsDelete" -> commentsDeleteCall(d, r)
         [] r.h = "votesPost" -> votesPostCall(d, r)
         [] r.h = "usersUpdate" -> usersUpdateCall(d, r)
         [] r.h = "commentsCreateChecked" -> commentsCreateCheckedCall(d, r)
         [] r.h = "commentsDeleteOrAdmin" -> commentsDeleteOrAdminCall(d, r)
         [] r.h = "apiAnswersCreate" -> apiAnswersCreateCall(d, r)
         [] r.h = "apiAnswersAccept" -> apiAnswersAcceptCall(d, r)
         [] r.h = "apiAnswersUpdate" -> apiAnswersUpdateCall(d, r)
         [] r.h = "apiAnswersDelete" -> apiAnswersDeleteCall(d, r)
         [] r.h = "questionsList" -> questionsListCall(d, r)
         [] r.h = "votesGet" -> votesGetCall(d, r)
         [] r.h = "usersGet" -> usersGetCall(d, r)
         [] r.h = "usersQuestions" -> usersQuestionsCall(d, r)
         [] r.h = "usersAnswers" -> usersAnswersCall(d, r)

\* A request served with no other request in service: its calls one after the
\* other, up to the response.
RECURSIVE Run(_, _)
Run(d, r) ==
  LET o == Call(d, r)
  IN IF o.r.pc = "idle" THEN Resp(o.db, o.status) ELSE Run(o.db, o.r)

\* ------------------------------------------------------------------ requests
Init ==
  /\ users = InitUsers
  /\ questions = <<>>
  /\ answers = <<>>
  /\ comments = <<>>
  /\ votes = <<>>
  /\ nextId = 1
  /\ fetched = {}
  /\ inflight = [s \in Slots |-> Idle]
  /\ script = [run |-> 0, next |-> 0]

\* Request r, served in slot s, makes its next datastore call with outcome o.
\* fetched records which logged-in user has been served which question (history).
Step(s, r, o) ==
  /\ users' = o.db.users
  /\ questions' = o.db.questions
  /\ answers' = o.db.answers
  /\ comments' = o.db.comments
  /\ votes' = o.db.votes
  /\ nextId' = o.db.nextId
  /\ inflight' = [t \in Slots |-> IF t = s THEN o.r ELSE Shifted(inflight[t], o.removed)]
  /\ fetched' = IF r.h = "questionsGet" /\ o.status = 200 /\ r.u # NoUser
                  THEN fetched \cup {<<r.u, r.id>>}
                  ELSE fetched
  /\ UNCHANGED script

\* A request arrives: the handler runs up to its first await and the datastore
\* serves that call.
ArrivesAt(s, r) ==
  /\ inflight[s].pc = "idle"
  /\ Step(s, r, Call(DB, r))

Arrives(r) ==
  \E s \in Slots :
    /\ \A t \in Slots : t < s => inflight[t].pc # "idle"
    /\ ArrivesAt(s, r)

\* The datastore serves the next call of a request in service.
Serve ==
  \E s \in Slots :
    /\ inflight[s].pc # "idle"
    /\ Step(s, inflight[s], Call(DB, inflight[s]))

\* The next datastore call of a request in service throws: the catch answers
\* 500 and the store stays as the calls before it left it.
CallThrows ==
  \E s \in Slots :
    /\ inflight[s].pc # "idle"
    /\ inflight' = [inflight EXCEPT ![s] = Idle]
    /\ UNCHANGED <<users, questions, answers, comments, votes, nextId, fetched, script>>

\* node scripts/fixUsers.js: the script connects and deletes every user.
FixUsersDeleteMany ==
  /\ script.next = 0
  /\ script.run < MaxRuns
  /\ users' = [u \in {} |-> NewUser(usersData[1])]
  /\ script' = [run |-> script.run + 1, next |-> 1]
  /\ UNCHANGED <<questions, answers, comments, votes, nextId, fetched, inflight>>

\* The script creates the next user of usersData; the unique index on username
\* rejects a name that a stored user has, and the script exits in its catch.
FixUsersCreate ==
  /\ script.next # 0
  /\ LET userData == usersData[script.next]
     IN IF \E w \in DOMAIN users : users[w].username = userData.username
          THEN /\ users' = users
               /\ script' = [script EXCEPT !.next = 0]
          ELSE /\ users' = users @@ (UserId(script.run, script.next) :> NewUser(userData))
               /\ script' = [script EXCEPT !.next = IF @ = Len(usersData) THEN 0 ELSE @ + 1]
  /\ UNCHANGED <<questions, answers, comments, votes, nextId, fetched, inflight>>

\* A call of the script throws (the connection is lost): the script exits in
\* its catch with the users it has created so far.
FixUsersThrows ==
  /\ script.next # 0
  /\ script' = [script EXCEPT !.next = 0]
  /\ UNCHANGED <<users, questions, answers, comments, votes, nextId, fetched, inflight>>

\* scripts/fixUsers.js, one awaited call at a time.
FixUsers == FixUsersDeleteMany \/ FixUsersCreate \/ FixUsersThrows

\* The users that send requests: the registered users, whose token outlives
\* their document, and the users stored.
Requesters == Users \cup DOMAIN users

\* The documents created stay within the number the model explores: the requests
\* in service that have yet to create theirs are counted in.
Room ==
  nextId + Cardinality({s \in Slots : inflight[s].pc \in {"Answer.create", "Comment.create"}})
    <= MaxDocs

\* The Vote collection stays within the size the model explores: a request that
\* would add a Vote document to a collection of MaxVotes documents is left out;
\* one that removes or changes a Vote document, or is answered with an error,
\* arrives whatever the collection holds.
VoteRoom(u, tt, id, v) ==
  Len(votesPost(DB, u, tt, id, v).db.votes) <= MaxVotes

GetQuestion ==
  \E u \in Requesters \cup {NoUser}, id \in Ids : Arrives(questionsGetBegin(u, id))

CreateQuestion ==
  \E u \in Requesters, ok \in BOOLEAN : Room /\ Arrives(questionsCreateBegin(u, ok))

DeleteQuestion ==
  \E u \in Requesters, id \in Ids : Arrives(questionsDeleteBegin(u, id))

CreateAnswer ==
  \E u \in Requesters, qid \in Ids, ok \in BOOLEAN :
    Room /\ Arrives(serveCreateAnswerBegin(u, qid, ok))

\* Neither handler reads the :id of the URL, so the answer's own question stands
\* for every value of it.
UrlQuestion(aid) == IF aid \in DOMAIN answers THEN answers[aid].questionId ELSE 1

DeleteAnswer ==
  \E u \in Requesters, aid \in Ids : Arrives(serveDeleteAnswerBegin(u, UrlQuestion(aid), aid))

AcceptAnswer ==
  \E u \in Requesters, qid \in Ids, aid \in Ids : Arrives(serveAcceptBegin(u, qid, aid))

\* The votes counter stays within the range the model explores.
InCap(n) == -VoteCap <= n /\ n <= VoteCap

VoteQuestion ==
  \E u \in Requesters, id \in Ids, n \in {1, -1} :
    /\ id \in DOMAIN questions => InCap(questions[id].votes + n)
    /\ Arrives(questionsVoteBegin(u, id, n))

VoteAnswer ==
  \E u \in Requesters, aid \in Ids, n \in {1, -1} :
    /\ aid \in DOMAIN answers => InCap(answers[aid].votes + n)
    /\ Arrives(questionsVoteAnswerBegin(u, UrlQuestion(aid), aid, n))

\* The bodies of POST /api/votes: every valid targetType and value, and one
\* invalid value of each.
VoteBodies ==
  (TargetTypes \X {1, -1}) \cup {<<"comment", 1>>, <<"question", 0>>}

VotePostOf(u, id, b) ==
  /\ VoteRoom(u, b[1], id, b[2])
  /\ Arrives(votesPostBegin(u, b[1], id, b[2]))

VotePost ==
  \E u \in Requesters, id \in Ids, b \in VoteBodies : VotePostOf(u, id, b)

CreateComment ==
  \E u \in Requesters, ok \in BOOLEAN, tt \in TargetTypes \cup {"comment"}, id \in Ids :
    Room /\ Arrives(commentsCreateBegin(u, ok, tt, id))

\* The texts an update request carries: none, the text the document was created
\* with, or a new one.
Texts == {Null, FirstText, FirstText + 1}

\* The version key stays within the range the model explores.
UpdateQuestion ==
  \E u \in Requesters, id \in Ids, title \in Texts, body \in Texts, tags \in Texts :
    /\ id \in DOMAIN questions => questions[id].version < MaxVersion
    /\ Arrives(questionsUpdateBegin(u, id, title, body, tags))

UpdateAnswer ==
  \E u \in Requesters, aid \in Ids, body \in Texts :
    Arrives(serveUpdateAnswerBegin(u, UrlQuestion(aid), aid, body))

PinQuestion ==
  \E u \in Requesters, id \in Ids : Arrives(questionsPinBegin(u, id, TRUE))

UnpinQuestion ==
  \E u \in Requesters, id \in Ids : Arrives(questionsPinBegin(u, id, FALSE))

VerifyAnswer ==
  \E u \in Requesters, aid \in Ids : Arrives(questionsVerifyBegin(u, UrlQuestion(aid), aid, TRUE))

UnverifyAnswer ==
  \E u \in Requesters, aid \in Ids :
    Arrives(questionsVerifyBegin(u, UrlQuestion(aid), aid, FALSE))

\* index.js mounts ./routes/comments under /api/comments.
DeleteComment ==
  \E u \in Requesters, id \in Ids : Arrives(commentsDeleteBegin(u, id))

\* The copy of the comments router that looks the requester up, served under
\* /api/comments when it is the file the index loads as ./routes/comments.
CreateCommentChecked ==
  \E u \in Requesters, ok \in BOOLEAN, tt \in TargetTypes \cup {"comment"}, id \in Ids :
    Room /\ Arrives(commentsCreateCheckedBegin(u, ok, tt, id))

DeleteCommentOrAdmin ==
  \E u \in Requesters, id \in Ids : Arrives(commentsDeleteOrAdminBegin(u, id))

\* The requests of /api/answers, served where the index mounts the answers
\* router there.
ApiCreateAnswer ==
  \E u \in Requesters, questionId \in Ids, ok \in BOOLEAN :
    Room /\ Arrives(apiAnswersCreateBegin(u, questionId, ok))

ApiAcceptAnswer ==
  \E u \in Requesters, aid \in Ids : Arrives(apiAnswersAcceptBegin(u, aid))

ApiUpdateAnswer ==
  \E u \in Requesters, id \in Ids, body \in Texts : Arrives(apiAnswersUpdateBegin(u, id, body))

ApiDeleteAnswer ==
  \E u \in Requesters, id \in Ids : Arrives(apiAnswersDeleteBegin(u, id))

\* The requests that only read.
ListQuestions ==
  \E tags \in TagsQueries : Arrives(questionsListBegin(tags))

GetVote ==
  \E u \in Requesters, tt \in TargetTypes, id \in Ids : Arrives(votesGetBegin(u, tt, id))

GetUser ==
  \E id \in Requesters : Arrives(usersGetBegin(id))

GetUserQuestions ==
  \E id \in Requesters : Arrives(usersQuestionsBegin(id))

GetUserAnswers ==
  \E id \in Requesters : Arrives(usersAnswersBegin(id))

\* The usernames a profile update carries: none, one in use at registration, and
\* one nobody registered with (the script creates a user of that name); the bios:
\* undefined or a text.
Usernames == {NoName, "u1", usersData[2].username}
Bios == {NoBio, "bio"}

UpdateProfile ==
  \E u \in Requesters, id \in Requesters, username \in Usernames, bio \in Bios :
    Arrives(usersUpdateBegin(u, id, username, bio))

Next ==
  \/ GetQuestion
  \/ CreateQuestion
  \/ DeleteQuestion
  \/ CreateAnswer
  \/ DeleteAnswer
  \/ AcceptAnswer
  \/ VoteQuestion
  \/ VoteAnswer
  \/ VotePost
  \/ CreateComment
  \/ UpdateQuestion
  \/ UpdateAnswer
  \/ PinQuestion
  \/ UnpinQuestion
  \/ VerifyAnswer
  \/ UnverifyAnswer
  \/ DeleteComment
  \/ UpdateProfile
  \/ CreateCommentChecked
  \/ DeleteCommentOrAdmin
  \/ ApiCreateAnswer
  \/ ApiAcceptAnswer
  \/ ApiUpdateAnswer
  \/ ApiDeleteAnswer
  \/ ListQuestions
  \/ GetVote
  \/ GetUser
  \/ GetUserQuestions
  \/ GetUserAnswers
  \/ Serve
  \/ CallThrows
  \/ FixUsers

Spec == Init /\ [][Next]_vars

\* ------------------------------------------------------------------ sequential execution
\* Requests executed sequentially: a request arrives when none is in service.
\* Voting through POST /api/votes, with creation, deletion and accepting.
NextVotes ==
  \/ (AllIdle /\ nextId <= FewDocs /\ CreateQuestion)
  \/ (AllIdle /\ nextId <= FewDocs /\ CreateAnswer)
  \/ (AllIdle /\ VotePost)
  \/ (AllIdle /\ DeleteQuestion)
  \/ (AllIdle /\ DeleteAnswer)
  \/ (AllIdle /\ AcceptAnswer)
  \/ Serve

SpecVotes == Init /\ [][NextVotes]_vars

VotePostFew ==
  \E u \in Users, id \in Ids, b \in VoteBodies :
    /\ Len(votesPost(DB, u, b[1], id, b[2]).db.votes) <= DirectVotes
    /\ VotePostOf(u, id, b)

\* Voting through POST /api/votes and through the direct upvote/downvote routes.
NextDirect ==
  \/ (AllIdle /\ nextId <= FewDocs /\ CreateQuestion)
  \/ (AllIdle /\ nextId <= FewDocs /\ CreateAnswer)
  \/ (AllIdle /\ VotePostFew)
  \/ (AllIdle /\ VoteQuestion)
  \/ (AllIdle /\ VoteAnswer)
  \/ Serve

SpecDirect == Init /\ [][NextDirect]_vars

\* Creation and deletion of questions, answers and comments.
NextCascade ==
  \/ (AllIdle /\ CreateQuestion)
  \/ (AllIdle /\ CreateAnswer)
  \/ (AllIdle /\ CreateComment)
  \/ (AllIdle /\ DeleteQuestion)
  \/ (AllIdle /\ DeleteAnswer)
  \/ Serve

SpecCascade == Init /\ [][NextCascade]_vars

\* Creation and deletion of questions, answers and comments, while
\* scripts/fixUsers.js deletes the users and exits in its catch before it has
\* created one.
NextDeletes ==
  \/ (AllIdle /\ CreateQuestion)
  \/ (AllIdle /\ CreateAnswer)
  \/ (AllIdle /\ CreateComment)
  \/ (AllIdle /\ DeleteQuestion)
  \/ (AllIdle /\ DeleteAnswer)
  \/ Serve
  \/ FixUsersDeleteMany
  \/ FixUsersThrows

SpecDeletes == Init /\ [][NextDeletes]_vars

\* Accepting answers.
NextAccept ==
  \/ (AllIdle /\ CreateQuestion)
  \/ (AllIdle /\ CreateAnswer)
  \/ (AllIdle /\ AcceptAnswer)
  \/ Serve

SpecAccept == Init /\ [][NextAccept]_vars

\* Fetching questions.
NextViews ==
  \/ (AllIdle /\ nextId <= FewDocs /\ CreateQuestion)
  \/ (AllIdle /\ GetQuestion)
  \/ (AllIdle /\ DeleteQuestion)
  \/ Serve

SpecViews == Init /\ [][NextViews]_vars

\* Creating and deleting comments, while scripts/fixUsers.js runs beside the
\* server.
NextComments ==
  \/ (AllIdle /\ CreateQuestion)
  \/ (AllIdle /\ CreateAnswer)
  \/ (AllIdle /\ CreateComment)
  \/ (AllIdle /\ DeleteComment)
  \/ Serve
  \/ FixUsers

SpecComments == Init /\ [][NextComments]_vars

\* Creating documents and updating profiles, while scripts/fixUsers.js deletes
\* the users and exits in its catch before it has created one: the requests that
\* follow come from users whose document is gone.
NextFrame ==
  \/ (AllIdle /\ CreateQuestion)
  \/ (AllIdle /\ CreateAnswer)
  \/ (AllIdle /\ CreateComment)
  \/ (AllIdle /\ UpdateProfile)
  \/ Serve
  \/ FixUsersDeleteMany
  \/ FixUsersThrows

SpecFrame == Init /\ [][NextFrame]_vars

\* Updating questions and answers.
NextEdit ==
  \/ (AllIdle /\ nextId <= FewDocs /\ CreateQuestion)
  \/ (AllIdle /\ nextId <= FewDocs /\ CreateAnswer)
  \/ (AllIdle /\ UpdateQuestion)
  \/ (AllIdle /\ UpdateAnswer)
  \/ Serve

SpecEdit == Init /\ [][NextEdit]_vars

\* Pinning questions and verifying answers.
NextModerate ==
  \/ (AllIdle /\ CreateQuestion)
  \/ (AllIdle /\ CreateAnswer)
  \/ (AllIdle /\ PinQuestion)
  \/ (AllIdle /\ UnpinQuestion)
  \/ (AllIdle /\ VerifyAnswer)
  \/ (AllIdle /\ UnverifyAnswer)
  \/ Serve

SpecModerate == Init /\ [][NextModerate]_vars

\* The votes counters and reputations stay within the range the model explores.
InDrift(d) ==
  /\ Len(d.votes) <= FailVotes
  /\ \A u \in DOMAIN d.users :
       -Drift <= d.users[u].reputation /\ d.users[u].reputation <= Drift
  /\ \A q \in DOMAIN d.questions :
       -Drift <= d.questions[q].votes /\ d.questions[q].votes <= Drift
  /\ \A a \in DOMAIN d.answers :
       -Drift <= d.answers[a].votes /\ d.answers[a].votes <= Drift

VotePostInDrift ==
  \E u \in Users, id \in Ids, b \in VoteBodies :
    /\ InDrift(votesPost(DB, u, b[1], id, b[2]).db)
    /\ VotePostOf(u, id, b)

\* Voting through POST /api/votes with datastore failures.
NextPartial ==
  \/ (AllIdle /\ nextId <= FailDocs /\ CreateQuestion)
  \/ (AllIdle /\ nextId <= FailDocs /\ CreateAnswer)
  \/ (AllIdle /\ VotePostInDrift)
  \/ Serve
  \/ CallThrows

SpecPartial == Init /\ [][NextPartial]_vars

\* ------------------------------------------------------------------ interleaved execution
\* The votes counters and reputations, which interleaved votes move without
\* limit, are within the range the model explores.
InRaceDrift ==
  /\ \A w \in Users :
       -RaceDrift <= users[w].reputation /\ users[w].reputation <= RaceDrift
  /\ \A q \in DOMAIN questions :
       -RaceDrift <= questions[q].votes /\ questions[q].votes <= RaceDrift
  /\ \A a \in DOMAIN answers :
       -RaceDrift <= answers[a].votes /\ answers[a].votes <= RaceDrift

\* A vote request of user u arrives while another may be in service.
StartVote(s, u) ==
  \E id \in Ids, b \in VoteBodies :
    /\ InRaceDrift
    /\ ArrivesAt(s, votesPostBegin(u, b[1], id, b[2]))

SlotUser(s) == IF s = 1 THEN "u2" ELSE "u3"

StartVoteByTwoUsers == \E s \in Slots : StartVote(s, SlotUser(s))

StartVoteByOneUser == \E s \in Slots : StartVote(s, "u2")

\* Vote requests of two users, interleaved.
NextVoteRace ==
  \/ (nextId <= RaceDocs /\ CreateQuestion)
  \/ StartVoteByTwoUsers
  \/ Serve

SpecVoteRace == Init /\ [][NextVoteRace]_vars

\* Vote requests of one user, interleaved.
NextSameVoteRace ==
  \/ (nextId <= RaceDocs /\ CreateQuestion)
  \/ StartVoteByOneUser
  \/ Serve

SpecSameVoteRace == Init /\ [][NextSameVoteRace]_vars

\* An accept request arrives while another may be in service.
StartAccept ==
  \E s \in Slots, u \in Users, qid \in Ids, aid \in Ids :
    ArrivesAt(s, serveAcceptBegin(u, qid, aid))

\* Accept requests, interleaved with each other and with the requests that
\* create the questions and answers.
NextAcceptRace ==
  \/ CreateQuestion
  \/ CreateAnswer
  \/ StartAccept
  \/ Serve

SpecAcceptRace == Init /\ [][NextAcceptRace]_vars

\* Accepting and deleting answers.
NextAcceptDelete ==
  \/ (AllIdle /\ CreateQuestion)
  \/ (AllIdle /\ CreateAnswer)
  \/ (AllIdle /\ AcceptAnswer)
  \/ (AllIdle /\ DeleteAnswer)
  \/ Serve

SpecAcceptDelete == Init /\ [][NextAcceptDelete]_vars

\* ================================================================== properties
\* Served with no other request in service, the calls of a handler make the
\* handler's operator.
ServedAloneAgrees ==
  /\ \A u \in Requesters \cup {NoUser}, id \in Ids :
       Run(DB, questionsGetBegin(u, id)) = questionsGet(DB, u, id)
  /\ \A u \in Requesters, ok \in BOOLEAN :
       Run(DB, questionsCreateBegin(u, ok)) = questionsCreate(DB, u, ok)
  /\ \A u \in Requesters, id \in Ids, title \in Texts, body \in Texts, tags \in Texts :
       Run(DB, questionsUpdateBegin(u, id, title, body, tags))
         = questionsUpdate(DB, u, id, title, body, tags)
  /\ \A u \in Requesters, id \in Ids :
       /\ Run(DB, questionsDeleteBegin(u, id)) = questionsDelete(DB, u, id)
       /\ Run(DB, questionsPinBegin(u, id, TRUE)) = questionsPin(DB, u, id)
       /\ Run(DB, questionsPinBegin(u, id, FALSE)) = questionsUnpin(DB, u, id)
       /\ Run(DB, commentsDeleteBegin(u, id)) = commentsDelete(DB, u, id)
       /\ \A n \in {1, -1} :
            Run(DB, questionsVoteBegin(u, id, n)) = questionsVote(DB, u, id, n)
       /\ \A b \in VoteBodies :
            Run(DB, votesPostBegin(u, b[1], id, b[2])) = votesPost(DB, u, b[1], id, b[2])
       /\ \A ok \in BOOLEAN :
            /\ Run(DB, questionsCreateAnswerBegin(u, id, ok))
                 = questionsCreateAnswer(DB, u, id, ok)
            /\ Run(DB, answersCreateBegin(u, id, ok)) = answersCreate(DB, u, id, ok)
            /\ \A tt \in TargetTypes \cup {"comment"} :
                 Run(DB, commentsCreateBegin(u, ok, tt, id))
                   = commentsCreate(DB, u, ok, tt, id)
  /\ \A u \in Requesters, qid \in Ids, aid \in Ids :
       /\ Run(DB, questionsDeleteAnswerBegin(u, qid, aid))
            = questionsDeleteAnswer(DB, u, qid, aid)
       /\ Run(DB, answersDeleteBegin(u, qid, aid)) = answersDelete(DB, u, qid, aid)
       /\ Run(DB, questionsAcceptBegin(u, qid, aid)) = questionsAccept(DB, u, qid, aid)
       /\ Run(DB, answersAcceptBegin(u, qid, aid)) = answersAccept(DB, u, qid, aid)
       /\ Run(DB, questionsVerifyBegin(u, qid, aid, TRUE)) = questionsVerify(DB, u, qid, aid)
       /\ Run(DB, questionsVerifyBegin(u, qid, aid, FALSE))
            = questionsUnverify(DB, u, qid, aid)
       /\ \A n \in {1, -1} :
            Run(DB, questionsVoteAnswerBegin(u, qid, aid, n))
              = questionsVoteAnswer(DB, u, qid, aid, n)
       /\ \A body \in Texts :
            /\ Run(DB, questionsUpdateAnswerBegin(u, qid, aid, body))
                 = questionsUpdateAnswer(DB, u, qid, aid, body)
            /\ Run(DB, answersUpdateBegin(u, qid, aid, body))
                 = answersUpdate(DB, u, qid, aid, body)
  /\ \A u \in Requesters, id \in Requesters, username \in Usernames, bio \in Bios :
       Run(DB, usersUpdateBegin(u, id, username, bio)) = usersUpdate(DB, u, id, username, bio)
  /\ \A u \in Requesters, id \in Ids :
       /\ Run(DB, commentsDeleteOrAdminBegin(u, id)) = commentsDeleteOrAdmin(DB, u, id)
       /\ Run(DB, apiAnswersAcceptBegin(u, id)) = apiAnswersAccept(DB, u, id)
       /\ Run(DB, apiAnswersDeleteBegin(u, id)) = apiAnswersDelete(DB, u, id)
       /\ \A body \in Texts :
            Run(DB, apiAnswersUpdateBegin(u, id, body)) = apiAnswersUpdate(DB, u, id, body)
       /\ \A tt \in TargetTypes : Run(DB, votesGetBegin(u, tt, id)) = votesGet(DB, u, tt, id)
       /\ \A ok \in BOOLEAN :
            /\ Run(DB, apiAnswersCreateBegin(u, id, ok)) = apiAnswersCreate(DB, u, id, ok)
            /\ \A tt \in TargetTypes \cup {"comment"} :
                 Run(DB, commentsCreateCheckedBegin(u, ok, tt, id))
                   = commentsCreateChecked(DB, u, ok, tt, id)
  /\ \A tags \in TagsQueries : Run(DB, questionsListBegin(tags)) = questionsList(DB, tags)
  /\ \A id \in Requesters :
       /\ Run(DB, usersGetBegin(id)) = usersGet(DB, id)
       /\ Run(DB, usersQuestionsBegin(id)) = usersQuestions(DB, id)
       /\ Run(DB, usersAnswersBegin(id)) = usersAnswers(DB, id)

\* The requests a property ranges over.
VoteValues == {1, -1}

\* The Vote records of one user on one target, as indices into the collection.
VotesBy(vs, u, tt, id) ==
  {i \in DOMAIN vs : vs[i].user = u /\ vs[i].targetType = tt /\ vs[i].targetId = id}

VoteSet(vs) == {vs[i] : i \in DOMAIN vs}

RECURSIVE SumVotes(_, _, _)
\* The sum of the values of the Vote records on one target.
SumVotes(vs, tt, id) ==
  IF vs = <<>> THEN 0
  ELSE (IF Head(vs).targetType = tt /\ Head(vs).targetId = id THEN Head(vs).value ELSE 0)
       + SumVotes(Tail(vs), tt, id)

Exists(d, tt, id) ==
  (tt = "question" /\ id \in DOMAIN d.questions) \/ (tt = "answer" /\ id \in DOMAIN d.answers)

Counter(d, tt, id) ==
  IF tt = "question" THEN d.questions[id].votes ELSE d.answers[id].votes

OwnerOf(d, tt, id) ==
  IF tt = "question" THEN d.questions[id].asker ELSE d.answers[id].answerer

\* The store with the votes counter of one target and the reputation of its owner
\* both moved by n, and nothing else touched.
WithDelta(d, tt, id, n) ==
  LET d1 == IF tt = "question"
              THEN [d EXCEPT !.questions[id].votes = @ + n]
              ELSE [d EXCEPT !.answers[id].votes = @ + n]
  IN [d1 EXCEPT !.users[OwnerOf(d, tt, id)].reputation = @ + n]

\* What the claims on voting compare: the Vote records (which user, which target,
\* which value), every votes counter and every reputation.
VoteState(d) ==
  [records |-> VoteSet(d.votes), count |-> Len(d.votes),
   questions |-> d.questions, answers |-> d.answers, users |-> d.users]

\* ------------------------------------------------------------------ C1
\* C1: the Vote collection holds at most one Vote record per
\* (user, targetType, targetId) in every state reachable by sequential requests.
VoteUnique ==
  \A i, j \in DOMAIN votes :
    (/\ votes[i].user = votes[j].user
     /\ votes[i].targetType = votes[j].targetType
     /\ votes[i].targetId = votes[j].targetId) => i = j

\* Two users hold opposite votes on one target, whose counter is back at 0.
VoteUniqueWitness ==
  /\ AllIdle
  /\ Len(votes) = 2
  /\ votes[1].targetType = votes[2].targetType
  /\ votes[1].targetId = votes[2].targetId
  /\ votes[1].user # votes[2].user
  /\ votes[1].value = -1
  /\ votes[2].value = 1
  /\ Exists(DB, votes[1].targetType, votes[1].targetId)
  /\ Counter(DB, votes[1].targetType, votes[1].targetId) = 0

\* ------------------------------------------------------------------ C2
VoteTwice(d, u, tt, id, v) == votesPost(votesPost(d, u, tt, id, v).db, u, tt, id, v).db

\* C2 as stated: sending the same POST /api/votes request twice in a row leaves
\* the Vote records, the votes counter and the owner's reputation as sending it
\* once does.
VoteTwiceIsOnce ==
  \A u \in Users, tt \in TargetTypes, id \in Ids, v \in VoteValues :
    Exists(DB, tt, id) =>
      VoteState(VoteTwice(DB, u, tt, id, v)) = VoteState(votesPost(DB, u, tt, id, v).db)

\* C2 as amended: the second of two identical requests toggles the vote the first
\* left, so two requests never equal one; when the user had no vote on the target
\* or a vote of the same value, the two requests restore the Vote records, the
\* counter and the reputation to their state before the first request, and when
\* the user's vote had the opposite value they leave no vote of the user on the
\* target and the counter and the owner's reputation moved by v.
VoteTwiceToggles ==
  \A u \in Users, tt \in TargetTypes, id \in Ids, v \in VoteValues :
    Exists(DB, tt, id) =>
      LET mine == VotesBy(votes, u, tt, id)
          two == VoteTwice(DB, u, tt, id, v)
      IN /\ VoteState(two) # VoteState(votesPost(DB, u, tt, id, v).db)
         /\ (\A i \in mine : votes[i].value = v) => VoteState(two) = VoteState(DB)
         /\ (\E i \in mine : votes[i].value = -v) =>
              /\ VotesBy(two.votes, u, tt, id) = {}
              /\ VoteSet(two.votes) = VoteSet(votes) \ {votes[i] : i \in mine}
              /\ Len(two.votes) = Len(votes) - 1
              /\ [two EXCEPT !.votes = votes] = WithDelta(DB, tt, id, v)

\* One user holds a vote on a target that exists and another user holds none, so
\* the three cases of a repeated request (none, same value, opposite value) occur.
VoteTwiceWitness ==
  /\ AllIdle
  /\ \E i \in DOMAIN votes, u \in Users :
       /\ Exists(DB, votes[i].targetType, votes[i].targetId)
       /\ VotesBy(votes, u, votes[i].targetType, votes[i].targetId) = {}
       /\ Counter(DB, votes[i].targetType, votes[i].targetId) = votes[i].value
       /\ Len(votes) = 2

\* ------------------------------------------------------------------ C3
\* C3: a POST /api/votes with value v on an existing target succeeds and applies
\* one delta d to the target's votes counter and to the owner's reputation: no
\* vote of the user on the target: a Vote with value v is created, d = v; a vote
\* of value v: it is deleted, d = -v; a vote of value -v: its value becomes v,
\* d = 2v. No other Vote record, counter or reputation changes.
VoteAppliesDelta ==
  \A u \in Users, tt \in TargetTypes, id \in Ids, v \in VoteValues :
    Exists(DB, tt, id) =>
      LET mine == VotesBy(votes, u, tt, id)
          r == votesPost(DB, u, tt, id, v)
          i == CHOOSE k \in mine : TRUE
      IN IF mine = {}
           THEN /\ r.status = 201
                /\ r.db.votes = Append(votes, [user |-> u, targetType |-> tt,
                                               targetId |-> id, value |-> v])
                /\ [r.db EXCEPT !.votes = votes] = WithDelta(DB, tt, id, v)
           ELSE IF votes[i].value = v
             THEN /\ r.status = 200
                  /\ r.db.votes = SubSeq(votes, 1, i - 1) \o SubSeq(votes, i + 1, Len(votes))
                  /\ [r.db EXCEPT !.votes = votes] = WithDelta(DB, tt, id, -v)
             ELSE /\ r.status = 200
                  /\ r.db.votes = [votes EXCEPT ![i].value = v]
                  /\ [r.db EXCEPT !.votes = votes] = WithDelta(DB, tt, id, 2 * v)

\* The owner of a target has reputation 2 from two votes, one of which a further
\* request would remove and the other reverse.
VoteAppliesDeltaWitness ==
  /\ AllIdle
  /\ \E tt \in TargetTypes, id \in Ids :
       /\ Exists(DB, tt, id)
       /\ Len(votes) = 2
       /\ \A i \in DOMAIN votes :
            votes[i].targetType = tt /\ votes[i].targetId = id /\ votes[i].value = 1
       /\ Counter(DB, tt, id) = 2
       /\ users[OwnerOf(DB, tt, id)].reputation = 2

\* ------------------------------------------------------------------ C4
\* The votes counter of every existing question and answer equals the sum of the
\* values of the Vote records that target it.
CountsMatch ==
  /\ \A q \in DOMAIN questions : questions[q].votes = SumVotes(votes, "question", q)
  /\ \A a \in DOMAIN answers : answers[a].votes = SumVotes(votes, "answer", a)

\* C4: after any sequence of sequentially executed requests, the votes counter of
\* every existing question and answer equals the sum of the values of the Vote
\* records that target it.
VoteCountMatchesRecords == AllIdle => CountsMatch

\* ------------------------------------------------------------------ C5
CommentsOn(cs, tt, ids) ==
  {c \in DOMAIN cs : cs[c].targetType = tt /\ cs[c].targetId \in ids}

AnswersOf(as, qid) == {a \in DOMAIN as : as[a].questionId = qid}

\* C5: after a successful DELETE of a question the question is gone, no Answer of
\* the question remains, and no Comment on the question or on any of its answers
\* remains.
QuestionDeleteCascades ==
  \A u \in Users, id \in Ids :
    LET r == questionsDelete(DB, u, id)
    IN r.status = 200 =>
         /\ id \notin DOMAIN r.db.questions
         /\ AnswersOf(r.db.answers, id) = {}
         /\ CommentsOn(r.db.comments, "question", {id}) = {}
         /\ CommentsOn(r.db.comments, "answer", AnswersOf(answers, id)) = {}

\* ------------------------------------------------------------------ C6
\* C6: after a successful DELETE of an answer, served by the first router in
\* mounting order that has the route, the answer is gone and no Comment with
\* targetType 'answer' and that targetId remains.
AnswerDeleteCascades ==
  \A u \in Users, qid \in Ids, aid \in Ids :
    LET r == serveDeleteAnswer(DB, u, qid, aid)
    IN r.status = 200 =>
         /\ aid \notin DOMAIN r.db.answers
         /\ CommentsOn(r.db.comments, "answer", {aid}) = {}

\* An answer that carries a comment and that a user other than its author (the
\* admin) may delete; the delete removes both.
AnswerDeleteWitness ==
  /\ AllIdle
  /\ \E a \in DOMAIN answers, u \in Users :
       /\ u # answers[a].answerer
       /\ CommentsOn(comments, "answer", {a}) # {}
       /\ LET r == serveDeleteAnswer(DB, u, answers[a].questionId, a)
          IN r.status = 200 /\ r.db.comments # comments /\ r.db.answers # answers

\* ------------------------------------------------------------------ C7
\* C7: after any sequence of sequentially executed accept requests, every
\* question has at most one answer with isAccepted = true, and an answer has
\* isAccepted = true exactly when its question's acceptedAnswer references it.
AcceptedPointersConsistent ==
  AllIdle =>
    /\ \A q \in DOMAIN questions :
         Cardinality({a \in AnswersOf(answers, q) : answers[a].isAccepted}) <= 1
    /\ \A a \in DOMAIN answers :
         answers[a].isAccepted <=>
           /\ answers[a].questionId \in DOMAIN questions
           /\ questions[answers[a].questionId].acceptedAnswer = a

\* ------------------------------------------------------------------ C8
Unchanged(d) ==
  /\ d.answers = answers
  /\ d.questions = questions
  /\ d.users = users

\* C8: an accept request for an existing question from any user other than its
\* asker (an admin and the answerer included) is answered 403 and changes no
\* answer's isAccepted, no question's acceptedAnswer and no user's reputation.
OnlyAskerAccepts ==
  \A u \in Users, qid \in Ids, aid \in Ids :
    /\ (qid \in DOMAIN questions /\ questions[qid].asker # u) =>
         LET r == serveAccept(DB, u, qid, aid)
         IN r.status = 403 /\ Unchanged(r.db)
    /\ (/\ aid \in DOMAIN answers
        /\ answers[aid].questionId \in DOMAIN questions
        /\ questions[answers[aid].questionId].asker # u) =>
         LET r == answersAccept(DB, u, qid, aid)
         IN r.status = 403 /\ Unchanged(r.db)

\* A question with an accepted answer and a second answer, written by the admin,
\* which the admin is not the asker of.
OnlyAskerAcceptsWitness ==
  /\ AllIdle
  /\ \E q \in DOMAIN questions, a \in DOMAIN answers, b \in DOMAIN answers :
       /\ a # b
       /\ answers[a].questionId = q /\ answers[b].questionId = q
       /\ questions[q].acceptedAnswer = a /\ answers[a].isAccepted
       /\ users[answers[b].answerer].role = "admin"
       /\ questions[q].asker # answers[b].answerer

\* ------------------------------------------------------------------ C9
AcceptedBy(u) == {a \in DOMAIN answers : answers[a].answerer = u /\ answers[a].isAccepted}

\* C9: every successful accept request adds 15 to the reputation of the accepted
\* answer's author and, when the question had a different accepted answer,
\* subtracts 15 from that answer's author; a user's reputation from accepting is
\* 15 times the number of their currently accepted answers.
AcceptAdjustsReputation ==
  /\ \A u \in Users, qid \in Ids, aid \in Ids :
       LET r == serveAccept(DB, u, qid, aid)
           prev == questions[qid].acceptedAnswer
           hadOther == prev # Null /\ prev # aid /\ prev \in DOMAIN answers
           us1 == IF hadOther
                    THEN [users EXCEPT ![answers[prev].answerer].reputation =
                                          @ - AcceptBonus]
                    ELSE users
       IN r.status = 200 =>
            r.db.users = [us1 EXCEPT ![answers[aid].answerer].reputation = @ + AcceptBonus]
  /\ AllIdle =>
       \A u \in Users : users[u].reputation = AcceptBonus * Cardinality(AcceptedBy(u))

\* ------------------------------------------------------------------ C10
\* C10: a question's views counter increases by exactly 1 the first time a
\* logged-in user other than its creator fetches it and does not change on a later
\* fetch by the same user, on a fetch by the creator or on an anonymous fetch;
\* views equals the size of viewers minus 1. Stated under sequential execution,
\* for the states between requests: fetched holds the fetches that were answered.
ViewCountIdempotent ==
  AllIdle =>
    /\ \A q \in DOMAIN questions :
         /\ questions[q].views =
              Cardinality({u \in Users \ {questions[q].asker} : <<u, q>> \in fetched})
         /\ questions[q].views = Len(questions[q].viewers) - 1
    /\ \A q \in DOMAIN questions, u \in Users \cup {NoUser} :
         LET r == questionsGet(DB, u, q)
             first == u \in Users \ {questions[q].asker} /\ <<u, q>> \notin fetched
         IN /\ r.status = 200
            /\ r.db.questions[q].views = questions[q].views + (IF first THEN 1 ELSE 0)
            /\ questionsGet(r.db, u, q).db.questions[q].views = r.db.questions[q].views

\* A question both other users and its creator have fetched, with views 2.
ViewCountWitness ==
  /\ AllIdle
  /\ \E q \in DOMAIN questions :
       /\ \A u \in Users : <<u, q>> \in fetched
       /\ questions[q].views = 2
       /\ Len(questions[q].viewers) = 3

\* ------------------------------------------------------------------ C11
\* C11: POST /api/votes answers 400 when targetType is not 'question' or 'answer'
\* or when value is not 1 or -1, and 404 when the target does not exist; in each
\* of these cases no Vote record, votes counter or reputation changes.
VoteRejectsInvalid ==
  \A u \in Users, id \in Ids, tt \in {"question", "answer", "comment", "user"},
     v \in {1, -1, 0, 2} :
    LET r == votesPost(DB, u, tt, id, v)
        badType == tt \notin {"question", "answer"}
        badValue == v \notin {1, -1}
    IN /\ (badType \/ badValue) => (r.status = 400 /\ r.db = DB)
       /\ (~badType /\ ~badValue /\ ~Exists(DB, tt, id)) => (r.status = 404 /\ r.db = DB)
       /\ (~badType /\ ~badValue /\ Exists(DB, tt, id)) => r.status \in {200, 201}

\* A question that carries a vote and whose id names no answer: a vote on the
\* answer of that id is answered 404 and a vote of value 0 on the question 400.
VoteRejectsInvalidWitness ==
  /\ AllIdle
  /\ \E q \in DOMAIN questions :
       /\ Len(votes) = 1
       /\ votes[1].targetType = "question" /\ votes[1].targetId = q
       /\ questions[q].votes = votes[1].value
       /\ votesPost(DB, votes[1].user, "answer", q, 1).status = 404
       /\ votesPost(DB, votes[1].user, "question", q, 0).status = 400
       /\ votesPost(DB, votes[1].user, "comment", q, 1).status = 400

\* ------------------------------------------------------------------ C12
\* A response with status 400, 403 or 404 comes with the store as it was.
Framed(r) == r.status \in {400, 403, 404} => r.db = DB

\* C12: every request, to any handler, that is answered with status 400, 403 or
\* 404 leaves every stored User, Question, Answer, Comment and Vote document
\* unchanged. Stated for a request that is served with no other in service, sent
\* by a registered user whose document is stored or has been deleted, to every
\* handler of the routers under src/.
ErrorsChangeNothing ==
  AllIdle =>
    /\ \A tags \in TagsQueries : Framed(questionsList(DB, tags))
    /\ \A u \in Requesters, id \in Ids :
         /\ \A tt \in {"question", "answer", "comment"}, v \in {1, -1, 0} :
              Framed(votesPost(DB, u, tt, id, v))
         /\ \A tt \in TargetTypes : Framed(votesGet(DB, u, tt, id))
         /\ Framed(questionsGet(DB, u, id)) /\ Framed(questionsGet(DB, NoUser, id))
         /\ \A title \in Texts, body \in Texts, tags \in Texts :
              Framed(questionsUpdate(DB, u, id, title, body, tags))
         /\ Framed(questionsDelete(DB, u, id))
         /\ \A n \in {1, -1} : Framed(questionsVote(DB, u, id, n))
         /\ Framed(questionsPin(DB, u, id)) /\ Framed(questionsUnpin(DB, u, id))
         /\ Framed(commentsDelete(DB, u, id)) /\ Framed(commentsDeleteOrAdmin(DB, u, id))
         /\ Framed(apiAnswersAccept(DB, u, id)) /\ Framed(apiAnswersDelete(DB, u, id))
         /\ \A body \in Texts : Framed(apiAnswersUpdate(DB, u, id, body))
         /\ \A ok \in BOOLEAN :
              /\ Framed(questionsCreate(DB, u, ok))
              /\ Framed(questionsCreateAnswer(DB, u, id, ok))
              /\ Framed(answersCreate(DB, u, id, ok))
              /\ Framed(apiAnswersCreate(DB, u, id, ok))
              /\ \A tt \in {"question", "answer", "comment"} :
                   /\ Framed(commentsCreate(DB, u, ok, tt, id))
                   /\ Framed(commentsCreateChecked(DB, u, ok, tt, id))
    /\ \A u \in Requesters, qid \in Ids, aid \in Ids :
         /\ \A body \in Texts :
              /\ Framed(questionsUpdateAnswer(DB, u, qid, aid, body))
              /\ Framed(answersUpdate(DB, u, qid, aid, body))
         /\ Framed(questionsDeleteAnswer(DB, u, qid, aid))
         /\ Framed(answersDelete(DB, u, qid, aid))
         /\ \A n \in {1, -1} : Framed(questionsVoteAnswer(DB, u, qid, aid, n))
         /\ Framed(questionsAccept(DB, u, qid, aid))
         /\ Framed(answersAccept(DB, u, qid, aid))
         /\ Framed(questionsVerify(DB, u, qid, aid))
         /\ Framed(questionsUnverify(DB, u, qid, aid))
    /\ \A u \in Requesters, id \in Requesters :
         /\ Framed(usersGet(DB, id))
         /\ Framed(usersQuestions(DB, id)) /\ Framed(usersAnswers(DB, id))
         /\ \A username \in Usernames, bio \in Bios :
              Framed(usersUpdate(DB, u, id, username, bio))

\* A store whose users the script has deleted, in which requests are answered 400
\* (an accept of an answer under another question, the asker's vote on their own
\* question), 403 (a profile of another user, an update of an answer by a user
\* who did not write it) and 404 (the requester's own profile, a comment by a
\* requester who is not found, a vote on a missing answer), and in which the
\* answerer's delete of their answer through routes/answers.js is answered 500.
ErrorsChangeNothingWitness ==
  /\ AllIdle
  /\ DOMAIN users = {}
  /\ \E q \in DOMAIN questions, p \in DOMAIN questions, a \in DOMAIN answers :
       /\ q # p /\ answers[a].questionId = q
       /\ questions[q].asker # answers[a].answerer
       /\ usersUpdate(DB, "u2", "u2", NoName, "bio").status = 404
       /\ usersUpdate(DB, "u2", "u1", NoName, "bio").status = 403
       /\ commentsCreateChecked(DB, "u1", TRUE, "question", q).status = 404
       /\ questionsAccept(DB, questions[p].asker, p, a).status = 400
       /\ questionsVote(DB, questions[q].asker, q, 1).status = 400
       /\ answersUpdate(DB, questions[q].asker, q, a, FirstText + 1).status = 403
       /\ votesPost(DB, "u1", "answer", q, 1).status = 404
       /\ answersDelete(DB, answers[a].answerer, q, a).status = 500

\* ------------------------------------------------------------------ C13
\* C13 as it reads, for the users stored: a question is removed only by a
\* delete request of its asker or of an admin and an answer only by one of its
\* answerer or of an admin, and a delete request from any other user is answered
\* 403 and changes nothing.
OnlyOwnerOrAdminDeletes ==
  /\ \A u \in DOMAIN users, q \in DOMAIN questions :
       LET r == questionsDelete(DB, u, q)
       IN /\ \A a \in DOMAIN answers \ DOMAIN r.db.answers :
               u = answers[a].answerer \/ users[u].role = "admin"
          /\ u = questions[q].asker \/ users[u].role = "admin"
               \/ (r.status = 403 /\ r.db = DB)
  /\ \A u \in DOMAIN users, qid \in Ids, a \in DOMAIN answers :
       LET r == serveDeleteAnswer(DB, u, qid, a)
           s == answersDelete(DB, u, qid, a)
       IN \/ u = answers[a].answerer \/ users[u].role = "admin"
          \/ (r.status = 403 /\ r.db = DB /\ s.status = 403 /\ s.db = DB)

\* The requester's User document is stored and has role admin.
IsAdmin(u) == u \in DOMAIN users /\ users[u].role = "admin"

\* What a delete request that is refused answers: 403 to a user who is stored,
\* 500 to one whose User document is gone; either way nothing changes.
Refused(r, u) ==
  /\ r.status = IF u \in DOMAIN users THEN 403 ELSE 500
  /\ r.db = DB

\* The delete handlers, for every requester, stored or not.
DeleteRequests ==
  /\ \A u \in Requesters, q \in DOMAIN questions :
       LET r == questionsDelete(DB, u, q)
       IN IF u = questions[q].asker \/ IsAdmin(u)
            THEN /\ r.status = 200
                 /\ DOMAIN r.db.questions = DOMAIN questions \ {q}
                 /\ DOMAIN r.db.answers = DOMAIN answers \ AnswersOf(answers, q)
            ELSE Refused(r, u)
  /\ \A u \in Requesters, qid \in Ids, a \in DOMAIN answers :
       LET r == serveDeleteAnswer(DB, u, qid, a)
           s == answersDelete(DB, u, qid, a)
       IN /\ IF u = answers[a].answerer \/ IsAdmin(u)
               THEN /\ r.status = 200
                    /\ DOMAIN r.db.answers = DOMAIN answers \ {a}
                    /\ r.db.questions = questions
               ELSE Refused(r, u)
          /\ IF u \in DOMAIN users /\ (u = answers[a].answerer \/ IsAdmin(u))
               THEN /\ s.status = 200
                    /\ DOMAIN s.db.answers = DOMAIN answers \ {a}
                    /\ s.db.questions = questions
               ELSE Refused(s, u)

\* A step that removes a question is a call of a delete request for it; a step
\* that removes an answer is a call of a delete request for it or for its
\* question.
RemovedByDeleteRequests ==
  /\ \A q \in DOMAIN questions \ DOMAIN questions' :
       \E s \in Slots :
         /\ inflight[s].pc # "idle"
         /\ inflight[s].h = "questionsDelete" /\ inflight[s].id = q
  /\ \A a \in DOMAIN answers \ DOMAIN answers' :
       \E s \in Slots :
         /\ inflight[s].pc # "idle"
         /\ \/ inflight[s].h = "questionsDeleteAnswer" /\ inflight[s].id = a
            \/ inflight[s].h = "questionsDelete" /\ inflight[s].id = answers[a].questionId

\* C13: a question is deleted only by a delete request of its asker or of a user
\* whose role is admin; an answer only by a delete request of its answerer or of
\* an admin, or, with every answer of its question, by the delete request for
\* that question. A delete request from any other stored user is answered 403,
\* one from a requester whose User document is gone 500 (through
\* routes/answers.js also when the requester is the answerer), and the question
\* or answer, with its answers and comments, still exists afterwards; a delete
\* request that is not refused succeeds.
DeletesByOwnerAdminOrCascade ==
  [](DeleteRequests) /\ [][RemovedByDeleteRequests]_vars

\* The expert's answer, with a comment, under the question of a user with role
\* user, after the script has deleted the users: the asker's delete of the
\* question still succeeds and takes the answer along, the answerer's delete of
\* the answer succeeds through routes/questions.js and is answered 500 through
\* routes/answers.js, and the expert's and the former admin's delete of the
\* question are answered 500.
DeletesByOwnerAdminOrCascadeWitness ==
  /\ AllIdle
  /\ DOMAIN users = {}
  /\ \E q \in DOMAIN questions, a \in DOMAIN answers :
       /\ answers[a].questionId = q
       /\ questions[q].asker = "u1" /\ answers[a].answerer = "u2"
       /\ CommentsOn(comments, "answer", {a}) # {}
       /\ questionsDelete(DB, "u1", q).status = 200
       /\ a \notin DOMAIN questionsDelete(DB, "u1", q).db.answers
       /\ serveDeleteAnswer(DB, "u2", q, a).status = 200
       /\ answersDelete(DB, "u2", q, a).status = 500
       /\ questionsDelete(DB, "u2", q).status = 500
       /\ questionsDelete(DB, "u3", q).status = 500
       /\ serveDeleteAnswer(DB, "u3", q, a).status = 500

\* ------------------------------------------------------------------ C14
\* C14: DELETE /api/comments/:id succeeds when the requester is the comment's
\* author or has role admin, and is answered 403 with the comment kept for every
\* other requester. Stated for the handler of routes/comments.js, which index.js
\* mounts, and for the copy of the router that admits an admin.
CommentDeleteByAuthorOrAdmin ==
  \A u \in DOMAIN users, c \in DOMAIN comments :
    LET r == commentsDelete(DB, u, c)
        s == commentsDeleteOrAdmin(DB, u, c)
    IN IF u = comments[c].author \/ users[u].role = "admin"
         THEN /\ r.status = 200 /\ c \notin DOMAIN r.db.comments
              /\ s.status = 200 /\ c \notin DOMAIN s.db.comments
         ELSE /\ r.status = 403 /\ r.db = DB
              /\ s.status = 403 /\ s.db = DB

\* ------------------------------------------------------------------ C15
QuestionText(q) == <<q.title, q.body, q.tags>>

\* C15: PUT /api/questions/:id is owner only: an update request from the
\* question's asker succeeds, and an update request from any other user is
\* answered 403 and changes nothing, so that a question's title, body and tags
\* change only through an update request sent by its asker.
OnlyAskerUpdates ==
  \A u \in Users, q \in DOMAIN questions, title \in Texts, body \in Texts, tags \in Texts :
    LET r == questionsUpdate(DB, u, q, title, body, tags)
    IN IF u = questions[q].asker
         THEN r.status = 200
         ELSE /\ r.status = 403
              /\ r.db = DB
              /\ QuestionText(r.db.questions[q]) = QuestionText(questions[q])

\* ------------------------------------------------------------------ C16
\* The requesters the pin and unpin handlers admit for a question.
MayPin(u, q) ==
  users[u].role = "admin" \/ (users[u].role = "expert" /\ questions[q].asker = u)

\* Every question that is in the store d has the isPinned flag it has now.
PinnedKept(d) ==
  \A q \in DOMAIN questions \cap DOMAIN d.questions :
    d.questions[q].isPinned = questions[q].isPinned

\* C16: a pin or unpin request from an admin, or from an expert who is the
\* question's asker, succeeds and sets isPinned to true or false and nothing
\* else; a pin or unpin request from a user with role 'user', or from an expert
\* who is not the asker, is answered 403 and leaves isPinned unchanged; and no
\* request to another handler that writes questions changes isPinned.
OnlyPinChangesPinned ==
  /\ \A u \in Users, q \in DOMAIN questions :
       LET p == questionsPin(DB, u, q)
           n == questionsUnpin(DB, u, q)
       IN IF MayPin(u, q)
            THEN /\ p.status = 200
                 /\ p.db = [DB EXCEPT !.questions[q].isPinned = TRUE]
                 /\ n.status = 200
                 /\ n.db = [DB EXCEPT !.questions[q].isPinned = FALSE]
            ELSE /\ p.status = 403 /\ p.db = DB
                 /\ n.status = 403 /\ n.db = DB
  /\ \A u \in Users, id \in Ids :
       /\ \A title \in Texts, body \in Texts, tags \in Texts :
            PinnedKept(questionsUpdate(DB, u, id, title, body, tags).db)
       /\ PinnedKept(questionsGet(DB, u, id).db)
       /\ PinnedKept(questionsDelete(DB, u, id).db)
       /\ \A v \in {1, -1} :
            /\ PinnedKept(questionsVote(DB, u, id, v).db)
            /\ PinnedKept(votesPost(DB, u, "question", id, v).db)
       /\ \A aid \in Ids : PinnedKept(serveAccept(DB, u, id, aid).db)

\* One pinned question asked by the expert and one asked by a user with role
\* user that the admin pinned; the asker of the second may not unpin it, and the
\* expert may unpin the first but not the second.
OnlyPinChangesPinnedWitness ==
  /\ AllIdle
  /\ \E q \in DOMAIN questions, p \in DOMAIN questions :
       /\ questions[q].isPinned /\ questions[p].isPinned
       /\ users[questions[q].asker].role = "expert"
       /\ users[questions[p].asker].role = "user"
       /\ questionsUnpin(DB, questions[p].asker, p).status = 403
       /\ questionsUnpin(DB, questions[q].asker, p).status = 403
       /\ questionsUnpin(DB, questions[q].asker, q).status = 200

\* ------------------------------------------------------------------ C17
\* Every answer that is in the store d has the isVerified and verifiedBy it has
\* now.
VerifiedKept(d) ==
  \A a \in DOMAIN answers \cap DOMAIN d.answers :
    /\ d.answers[a].isVerified = answers[a].isVerified
    /\ d.answers[a].verifiedBy = answers[a].verifiedBy

\* C17: a verify request from an admin, or from an expert who is not the answer's
\* author, succeeds and records the answer as verified by the requester; a verify
\* request from a role 'user' requester, or from an expert on their own answer,
\* is answered 403 and leaves isVerified and verifiedBy unchanged; and no request
\* to another handler that writes answers changes isVerified or verifiedBy.
OnlyVerifyVerifies ==
  /\ \A u \in Users, qid \in Ids, a \in DOMAIN answers :
       LET r == questionsVerify(DB, u, qid, a)
       IN IF users[u].role = "admin" \/ (users[u].role = "expert" /\ answers[a].answerer # u)
            THEN /\ r.status = 200
                 /\ r.db = [DB EXCEPT !.answers[a].isVerified = TRUE,
                                       !.answers[a].verifiedBy = u]
            ELSE r.status = 403 /\ r.db = DB
  /\ \A u \in Users, qid \in Ids, aid \in Ids :
       /\ \A body \in Texts : VerifiedKept(serveUpdateAnswer(DB, u, qid, aid, body).db)
       /\ VerifiedKept(serveAccept(DB, u, qid, aid).db)
       /\ VerifiedKept(serveDeleteAnswer(DB, u, qid, aid).db)
       /\ \A v \in {1, -1} :
            /\ VerifiedKept(questionsVoteAnswer(DB, u, qid, aid, v).db)
            /\ VerifiedKept(votesPost(DB, u, "answer", aid, v).db)

\* An answer of a user with role user that the expert verified and an unverified
\* answer of the expert: the expert may not verify the second, its asker with role
\* user may verify neither, the admin may verify it.
OnlyVerifyVerifiesWitness ==
  /\ AllIdle
  /\ \E a \in DOMAIN answers, b \in DOMAIN answers :
       /\ answers[a].isVerified /\ users[answers[a].verifiedBy].role = "expert"
       /\ users[answers[a].answerer].role = "user"
       /\ ~answers[b].isVerified /\ answers[b].answerer = answers[a].verifiedBy
       /\ questionsVerify(DB, answers[b].answerer, answers[b].questionId, b).status = 403
       /\ questionsVerify(DB, answers[a].answerer, answers[b].questionId, b).status = 403
       /\ questionsVerify(DB, "u3", answers[b].questionId, b).status = 200

\* ------------------------------------------------------------------ C18
\* C18: the vote handler writes the Vote record first, then the target's votes
\* counter, then the owner's reputation, as three separate steps with no
\* rollback: a request whose k-th write fails is answered 500 and leaves the
\* writes before the k-th in place, so that after a failure of the third write
\* the Vote records and the counter are those of the completed request and the
\* reputations are those before it; with no failure the three writes together are
\* the request.
VoteWritesNotAtomic ==
  \A u \in Users, tt \in TargetTypes, id \in Ids, v \in VoteValues :
    Exists(DB, tt, id) =>
      LET full == votesPost(DB, u, tt, id, v)
          step(k) == votesPostSteps(DB, u, tt, id, v, k)
      IN /\ step(0) = full
         /\ \A k \in FailPoints : step(k).status = 500
         /\ step(1).db = DB
         /\ step(2).db = [DB EXCEPT !.votes = full.db.votes]
         /\ step(3).db = [full.db EXCEPT !.users = users]
         /\ step(2).db # DB /\ step(3).db # step(2).db /\ full.db # step(3).db

\* A single question with one Vote record and a votes counter equal to its value,
\* whose asker's reputation is still 0: the reputation write of the vote failed.
VoteWritesNotAtomicWitness ==
  /\ AllIdle
  /\ \E q \in DOMAIN questions :
       /\ nextId = 2
       /\ Len(votes) = 1
       /\ votes[1].targetType = "question" /\ votes[1].targetId = q
       /\ questions[q].votes = votes[1].value
       /\ users[questions[q].asker].reputation = 0

\* ------------------------------------------------------------------ C19
\* The isAccepted of every answer and the acceptedAnswer of every question.
AcceptState(d) ==
  <<[a \in DOMAIN d.answers |-> d.answers[a].isAccepted],
    [q \in DOMAIN d.questions |-> d.questions[q].acceptedAnswer]>>

\* C19: in the nested accept handler of routes/questions.js, a request for an
\* existing question and an existing answer whose questionId differs from the
\* question id of the URL is answered 400 when it comes from the question's asker
\* (403 from anybody else) and changes no answer's isAccepted and no question's
\* acceptedAnswer; so an answer that a question's acceptedAnswer names is an
\* answer of that question.
AcceptOnlyOwnAnswers ==
  /\ \A u \in Users, q \in DOMAIN questions, a \in DOMAIN answers :
       answers[a].questionId # q =>
         LET r == questionsAccept(DB, u, q, a)
         IN /\ r.status = (IF u = questions[q].asker THEN 400 ELSE 403)
            /\ AcceptState(r.db) = AcceptState(DB)
  /\ \A q \in DOMAIN questions :
       questions[q].acceptedAnswer \in DOMAIN answers =>
         answers[questions[q].acceptedAnswer].questionId = q

\* Two questions of one asker, the first with an accepted answer: the asker's
\* request to accept that answer under the second question is answered 400.
AcceptOnlyOwnAnswersWitness ==
  /\ AllIdle
  /\ \E q \in DOMAIN questions, p \in DOMAIN questions, a \in DOMAIN answers :
       /\ q # p
       /\ questions[q].asker = questions[p].asker
       /\ answers[a].questionId = q
       /\ questions[q].acceptedAnswer = a
       /\ questionsAccept(DB, questions[p].asker, p, a).status = 400

\* ------------------------------------------------------------------ C20
\* C20: an unverify request succeeds only when the requester is an admin or is
\* the expert recorded in the answer's verifiedBy; every other requester is
\* answered 403 and isVerified and verifiedBy stay unchanged. On success
\* isVerified becomes false and verifiedBy becomes null, and nothing else changes.
OnlyVerifierUnverifies ==
  \A u \in Users, qid \in Ids, a \in DOMAIN answers :
    LET r == questionsUnverify(DB, u, qid, a)
    IN IF users[u].role = "admin" \/ (users[u].role = "expert" /\ answers[a].verifiedBy = u)
         THEN /\ r.status = 200
              /\ r.db = [DB EXCEPT !.answers[a].isVerified = FALSE,
                                    !.answers[a].verifiedBy = NullVerifier]
         ELSE r.status = 403 /\ r.db = DB

\* An answer the expert verified and an answer the admin verified: the expert may
\* unverify the first and not the second, the author of the first, with role
\* user, neither, the admin both.
OnlyVerifierUnverifiesWitness ==
  /\ AllIdle
  /\ \E a \in DOMAIN answers, b \in DOMAIN answers :
       /\ answers[a].isVerified /\ answers[b].isVerified
       /\ users[answers[a].verifiedBy].role = "expert"
       /\ users[answers[b].verifiedBy].role = "admin"
       /\ users[answers[a].answerer].role = "user"
       /\ questionsUnverify(DB, answers[a].verifiedBy, answers[a].questionId, a).status = 200
       /\ questionsUnverify(DB, answers[a].verifiedBy, answers[b].questionId, b).status = 403
       /\ questionsUnverify(DB, answers[a].answerer, answers[a].questionId, a).status = 403
       /\ questionsUnverify(DB, answers[b].verifiedBy, answers[a].questionId, a).status = 200

\* ------------------------------------------------------------------ C21
\* C21: a request to the direct upvote or downvote route of a question by its
\* asker, or of an answer by its answerer, is answered 400 and leaves the votes
\* counter unchanged; for any other user the request changes the counter by
\* exactly +1 or -1 and changes no Vote record, no reputation and nothing else.
DirectVoteRejectsOwner ==
  \A u \in Users, n \in {1, -1} :
    /\ \A q \in DOMAIN questions :
         LET r == questionsVote(DB, u, q, n)
         IN IF u = questions[q].asker
              THEN r.status = 400 /\ r.db = DB
              ELSE r.status = 200 /\ r.db = [DB EXCEPT !.questions[q].votes = @ + n]
    /\ \A a \in DOMAIN answers, qid \in Ids :
         LET r == questionsVoteAnswer(DB, u, qid, a, n)
         IN IF u = answers[a].answerer
              THEN r.status = 400 /\ r.db = DB
              ELSE r.status = 200 /\ r.db = [DB EXCEPT !.answers[a].votes = @ + n]

\* A downvoted question and an upvoted answer with no Vote record and no
\* reputation moved.
DirectVoteRejectsOwnerWitness ==
  /\ AllIdle
  /\ \E q \in DOMAIN questions, a \in DOMAIN answers :
       /\ questions[q].votes = -1 /\ answers[a].votes = 1
       /\ votes = <<>>
       /\ \A u \in Users : users[u].reputation = 0
       /\ questionsVote(DB, questions[q].asker, q, 1).status = 400
       /\ questionsVoteAnswer(DB, answers[a].answerer, q, a, -1).status = 400

\* ------------------------------------------------------------------ C22
\* C22: when the question's asker sends an accept request for the answer that is
\* already the question's accepted answer, afterwards that answer still has
\* isAccepted = true, the question's acceptedAnswer still references it, and the
\* answerer's reputation is the same as before the request. Stated for the
\* handler that serves the request and for the handler of routes/answers.js.
AcceptIsIdempotent ==
  \A q \in DOMAIN questions, a \in DOMAIN answers :
    (questions[q].acceptedAnswer = a /\ answers[a].questionId = q /\ answers[a].isAccepted) =>
      \A h \in {"serving", "answers"} :
        LET r == IF h = "serving"
                   THEN serveAccept(DB, questions[q].asker, q, a)
                   ELSE answersAccept(DB, questions[q].asker, q, a)
        IN /\ r.status = 200
           /\ r.db.answers[a].isAccepted
           /\ r.db.questions[q].acceptedAnswer = a
           /\ r.db.users[answers[a].answerer].reputation =
                users[answers[a].answerer].reputation

\* ------------------------------------------------------------------ C23
\* C23: in every state reachable by verify and unverify requests, an answer has
\* isVerified = true exactly when its verifiedBy is a user reference, and the
\* user it names had role expert or admin when the verify request was served: a
\* verify request that succeeds comes from an expert or admin and records the
\* requester, and an unverify request that succeeds clears both fields.
VerifiedIffVerifier ==
  /\ \A a \in DOMAIN answers :
       /\ answers[a].isVerified <=> answers[a].verifiedBy \notin {NoVerifier, NullVerifier}
       /\ answers[a].isVerified => answers[a].verifiedBy \in Users
  /\ \A u \in Users, qid \in Ids, a \in DOMAIN answers :
       LET v == questionsVerify(DB, u, qid, a)
           n == questionsUnverify(DB, u, qid, a)
       IN /\ v.status = 200 =>
               /\ users[u].role \in {"expert", "admin"}
               /\ v.db.answers[a].isVerified /\ v.db.answers[a].verifiedBy = u
          /\ v.status # 200 => v.db.answers[a] = answers[a]
          /\ n.status = 200 =>
               ~n.db.answers[a].isVerified /\ n.db.answers[a].verifiedBy = NullVerifier
          /\ n.status # 200 => n.db.answers[a] = answers[a]

\* An answer of the expert that the admin verified next to an answer whose
\* verification was withdrawn (verifiedBy null).
VerifiedIffVerifierWitness ==
  /\ AllIdle
  /\ \E a \in DOMAIN answers, b \in DOMAIN answers :
       /\ answers[a].isVerified /\ users[answers[a].verifiedBy].role = "admin"
       /\ users[answers[a].answerer].role = "expert"
       /\ ~answers[b].isVerified /\ answers[b].verifiedBy = NullVerifier
       /\ questionsUnverify(DB, "u3", answers[a].questionId, a).status = 200

\* ------------------------------------------------------------------ C24
\* C24: a POST /api/votes request whose target is a question asked by the
\* requester or an answer written by the requester does not change the
\* requester's reputation or the target's votes counter.
NoSelfVote ==
  \A u \in Users, tt \in TargetTypes, id \in Ids, v \in VoteValues :
    (Exists(DB, tt, id) /\ OwnerOf(DB, tt, id) = u) =>
      LET r == votesPost(DB, u, tt, id, v)
      IN /\ r.db.users[u].reputation = users[u].reputation
         /\ Counter(r.db, tt, id) = Counter(DB, tt, id)

\* ------------------------------------------------------------------ C25
RECURSIVE SumOwned(_, _)
\* The sum of the votes counters of the questions and answers of ids that u owns.
SumOwned(u, ids) ==
  IF ids = {} THEN 0
  ELSE LET i == CHOOSE k \in ids : TRUE
       IN (IF i \in DOMAIN questions /\ questions[i].asker = u THEN questions[i].votes
           ELSE IF i \in DOMAIN answers /\ answers[i].answerer = u THEN answers[i].votes
           ELSE 0)
          + SumOwned(u, ids \ {i})

\* C25: when vote requests of two different users on the same target interleave
\* at the granularity of their datastore reads and writes, then after both
\* complete the target's votes counter equals the sum of the values of the Vote
\* records on the target, and the counter has changed by as much as the owner's
\* reputation (every reputation is the sum of the counters of the user's
\* documents, as votes are all that moves either).
RacingVotesAddUp ==
  AllIdle =>
    /\ CountsMatch
    /\ \A u \in Users : users[u].reputation = SumOwned(u, Ids)

\* ------------------------------------------------------------------ C26
\* The questions and answers that u owns.
OwnedBy(u) ==
  {q \in DOMAIN questions : questions[q].asker = u}
    \cup {a \in DOMAIN answers : answers[a].answerer = u}

\* C26: when two POST /api/votes requests of the same user on the same target
\* interleave so that both look up the existing vote before either writes, then
\* after both complete the user still has at most one Vote record on the target,
\* and the target's counter and the owner's reputation reflect at most one vote
\* of that user (the only voter): each counter lies in -1..1 and each reputation
\* is at most one point per owned document away from 0.
RacingVotesOfOneUserCountOnce ==
  AllIdle =>
    /\ \A tt \in TargetTypes, id \in Ids : Cardinality(VotesBy(votes, "u2", tt, id)) <= 1
    /\ \A q \in DOMAIN questions : questions[q].votes \in -1..1
    /\ \A a \in DOMAIN answers : answers[a].votes \in -1..1
    /\ \A u \in Users : users[u].reputation \in -Cardinality(OwnedBy(u))..Cardinality(OwnedBy(u))

\* ------------------------------------------------------------------ C27
\* C27: when accept requests of the asker for different answers of one question
\* interleave at the granularity of their datastore reads and writes, then after
\* all complete exactly one answer of the question has isAccepted = TRUE and it
\* is the one acceptedAnswer references. The formula is the part of this that
\* requests served one after another keep: no question has two answers with
\* isAccepted = TRUE, and one that has isAccepted = TRUE is the one
\* acceptedAnswer references.
RacingAcceptsLeaveOne ==
  AllIdle =>
    \A q \in DOMAIN questions :
      {a \in AnswersOf(answers, q) : answers[a].isAccepted}
        \subseteq {questions[q].acceptedAnswer}

\* ------------------------------------------------------------------ C28
\* C28: after any sequence of create and delete requests served one at a time,
\* the (targetType, targetId) of every stored Comment references a question or
\* an answer that still exists.
CommentTargetsExist ==
  AllIdle =>
    \A c \in DOMAIN comments : FindTarget(DB, comments[c].targetType, comments[c].targetId)

\* ------------------------------------------------------------------ C29
\* C29: after any sequence of accept and delete-answer requests served one at a
\* time, the acceptedAnswer of every question is unset or references an answer
\* that still exists; deleting the accepted answer clears the reference.
AcceptedAnswerExists ==
  AllIdle =>
    \A q \in DOMAIN questions :
      questions[q].acceptedAnswer # Null => questions[q].acceptedAnswer \in DOMAIN answers

====
